---- MODULE Spec2Model ----
(***************************************************************************)
(* Control-loop coordination layer of the Spot RL example:                 *)
(*   spot_rl_demo.main            the main thread (lifecycle)              *)
(*   spot.spot.Spot               state / command / activation threads     *)
(*   spot.mock_spot.MockSpot      the mock transport                       *)
(*   utils.event_divider          the rate divider (timing policy)         *)
(*   orbit.onnx_command_generator the shared context, the state handler    *)
(*                                and the command generator                *)
(*   hid.gamepad                  the axis curve and the median filter     *)
(*   utils.dict_tools             find_ordering, reorder, set_matching     *)
(*   orbit.orbit_configuration    load_configuration                       *)
(* Every thread is a program counter; one action is one step between two   *)
(* points where another thread can observe or change shared state.         *)
(***************************************************************************)
EXTENDS Integers, Sequences, FiniteSets, TLC

\* ------------------------------------------------------------- bounds
\* Snapshots the robot delivers before the state stream falls silent.
MaxSnapshots == 20
\* Periods the mock's RepeatedTimer runs before it falls silent.
MaxTicks == 8
\* Calls of the command generator after which no further call is modelled.
MaxCommands == 12
\* Longest median filter window a gamepad run is given.
MaxWindow == 5
\* Longest pair of orderings that is reordered there and back.
MaxLen == 3
\* Most actuator groups, and most joint_pos expressions, of a training
\* configuration file.
MaxGroups == 2
\* Most snapshots the state stream publishes while the generator's cycles
\* are followed on their data.
MaxPublished == 3

\* ---------------------------------------------------- program constants
\* EventDivider(context.event, 6)
Factor == 6
\* OnnxCommandGenerator.__init__: self._count = 1
InitialCount == 1
\* min(0.1 * self._count, 1): the ramp saturates at 10 tenths
RampFull == 10

VARIABLES
    \* ---- which transport main() built (options.mock)
    mock,
    \* ---- thread positions
    main_pc, state_pc, cmd_pc, act_pc, input_pc,
    \* ---- the exception main() is propagating ("none" when none)
    main_exc,
    \* ---- Spot / MockSpot fields
    started_streaming, activate_thread_stopping, command_stream_stopping,
    state_stream_stopping, command_thread, state_thread, activate_thread,
    \* ---- Gamepad
    gamepad, gamepad_stopping,
    \* ---- OnnxControllerContext
    event, latest_state, context_count,
    \* ---- EventDivider.__call__ local
    div_count,
    \* ---- OnnxCommandGenerator fields and locals
    gen_count, obs_state, obs_velocity, cmd_exc,
    \* ---- the robot and its state stream
    powered, snapshots, joint_control,
    \* ---- history (read by the properties only)
    produced, pulls, enable_calls, power_off_calls, timed_out,
    waits_total, waits_at_call, signals_in_call, div_calls, div_last,
    join_order,
    \* ---- OnnxControllerContext.velocity_cmd
    velocity_cmd,
    \* ---- history: power-on or stand raised; the cut_immediately arguments
    \* ---- of the power-off calls made
    startup_failed, power_off_cut,
    \* ---- one axis of the Gamepad: its AxisConfig, the filter window, the
    \* ---- buffer, the last raw and shaped sample, the published median
    x_axis, median_filter_window, stick, x_buffer, raw, shaped, x_vel,
    \* ---- history: a polling cycle has run
    listened,
    \* ---- dict_tools.find_ordering / reorder: the two orderings, the list,
    \* ---- and the list after the first and the second reordering
    ord_pc, ordering_a, ordering_b, inputs, there, back,
    \* ---- orbit_configuration.load_configuration: the training
    \* ---- configuration file, the OrbitConfig, the generator's _config
    load_pc, env_config, config, generator_config,
    \* ---- one cycle of OnnxCommandGenerator.__call__ on its data: the
    \* ---- snapshot the context holds, spot.constants'
    \* ---- ordered_joint_names_bosdyn, the observation, the policy's output,
    \* ---- _last_action and the position targets of the command; _init_pos
    \* ---- and _init_load, spot.constants' DEFAULT_K_Q_P and DEFAULT_K_QD_P,
    \* ---- and the command create_proto_hold builds in create_proto's place
    cycle_pc, robot_state, ordered_joint_names_bosdyn, input_list,
    policy_output, last_action, position,
    init_pos, init_load, DEFAULT_K_Q_P, DEFAULT_K_QD_P, hold

threads == <<main_pc, state_pc, cmd_pc, act_pc, input_pc, main_exc>>
spotf   == <<started_streaming, activate_thread_stopping, command_stream_stopping,
             state_stream_stopping, command_thread, state_thread, activate_thread>>
padf    == <<gamepad, gamepad_stopping>>
ctx     == <<event, latest_state, context_count>>
genf    == <<gen_count, obs_state, obs_velocity, cmd_exc>>
robot   == <<powered, snapshots, joint_control>>
hist    == <<produced, pulls, enable_calls, power_off_calls, timed_out,
             waits_total, waits_at_call, signals_in_call, div_calls, div_last,
             join_order>>
aux     == <<velocity_cmd, startup_failed, power_off_cut>>
axisf   == <<x_axis, median_filter_window, stick, x_buffer, raw, shaped, x_vel,
             listened>>
ordf    == <<ord_pc, ordering_a, ordering_b, inputs, there, back>>
loadf   == <<load_pc, env_config, config, generator_config>>
cyclef  == <<cycle_pc, robot_state, ordered_joint_names_bosdyn, input_list,
             policy_output, last_action, position,
             init_pos, init_load, DEFAULT_K_Q_P, DEFAULT_K_QD_P, hold>>
pure    == <<axisf, ordf, loadf, cyclef>>
life    == <<mock, threads, spotf, padf, ctx, div_count, genf, robot, hist, aux>>
vars    == <<life, pure>>

Min(a, b) == IF a <= b THEN a ELSE b
Max(a, b) == IF a >= b THEN a ELSE b
Abs(a) == IF a < 0 THEN -a ELSE a

\* OnnxControllerContext: velocity_cmd = [0, 0, 0]
DefaultVelocity == <<0, 0, 0>>

\* The raw axis value 1.0 (full deflection); an axis value, a deadband and a
\* shaping bound are kept in twentieths.
FullScale == 20

\* GamepadConfig: x_axis = AxisConfig(1, True, 0.2, 0.25, 1, 0.25, 1)
DefaultAxis ==
    [inverted |-> TRUE, deadband |-> 4,
     min_forward_dir |-> 5, max_forward_dir |-> 20,
     min_reverse_dir |-> 5, max_reverse_dir |-> 20]

\* Mutant: an input thread started whether or not a joystick is connected.
InputThreadAlways == "listen"

\* main(): gamepad = None; if joystick_connected(): gamepad = Gamepad(...);
\* gamepad.start_listening()
InputThreadAtStart == IF gamepad THEN "listen" ELSE "none"

\* ============================================ hid.gamepad: one axis
\* A shaped sample v of an axis with configuration cfg is kept as the integer
\* v * FullScale * Span(cfg); a published median, which np.median takes as the
\* mean of the two middle samples of an even window, is kept in halves of it.
\* (1.0 - cfg.deadband), in twentieths
Span(cfg) == FullScale - cfg.deadband

\* if cfg.inverted: value = -value
Inverted(value, cfg) == IF cfg.inverted THEN -value ELSE value

\* Mutant: a deadband test that forgets the absolute value.
InDeadbandSigned(value, cfg) == value >= 0 /\ value < cfg.deadband

\* if abs(value) < cfg.deadband: return 0
InDeadband(value, cfg) == Abs(value) < cfg.deadband

\* slope = (max - min) / (1.0 - cfg.deadband), times Span(cfg)
Slope(lo, hi) == hi - lo

\* Mutant: the shift taken from the lower bound.
ShiftFromMin(lo, hi, slope, cfg) == lo * Span(cfg) - slope * FullScale

\* shift = max - slope, times FullScale * Span(cfg)
Shift(lo, hi, slope, cfg) == hi * Span(cfg) - slope * FullScale

\* value = slope * value + shift, times FullScale * Span(cfg)
Remap(slope, value, shift) == slope * value + shift

\* Mutant: a clip that sends a value above the upper bound to the lower one.
ClipToLower(v, lo, hi) == IF v < lo \/ v > hi THEN lo ELSE v

\* np.clip(v, lo, hi) = minimum(maximum(v, lo), hi)
Clip(v, lo, hi) == Min(Max(v, lo), hi)

\* Gamepad._apply_curve
apply_curve(x, cfg) ==
    LET value == Inverted(x, cfg) IN
    IF InDeadband(value, cfg) THEN 0
    ELSE IF value > 0
      THEN LET slope == Slope(cfg.min_forward_dir, cfg.max_forward_dir)
               shift == Shift(cfg.min_forward_dir, cfg.max_forward_dir, slope, cfg)
           IN  Clip(Remap(slope, value, shift),
                    cfg.min_forward_dir * Span(cfg),
                    cfg.max_forward_dir * Span(cfg))
      ELSE LET slope == Slope(cfg.min_reverse_dir, cfg.max_reverse_dir)
               shift == Shift(cfg.min_reverse_dir, cfg.max_reverse_dir, slope, cfg)
           IN  Clip(Remap(slope, value, shift),
                    -(cfg.max_reverse_dir * Span(cfg)),
                    -(cfg.min_reverse_dir * Span(cfg)))

\* deque([0] * buffer_length, buffer_length)
NewBuffer(buffer_length) == [i \in 1..buffer_length |-> 0]

\* deque.append on a deque with maxlen: the oldest sample leaves a full deque.
BufferAppend(buffer, v, maxlen) ==
    IF Len(buffer) < maxlen THEN Append(buffer, v)
    ELSE Tail(buffer) \o <<v>>

\* The samples of a buffer in ascending order (np.median sorts a copy).
RECURSIVE Sorted(_)
Sorted(buffer) ==
    IF buffer = <<>> THEN <<>>
    ELSE LET least == CHOOSE i \in 1..Len(buffer) :
                          \A j \in 1..Len(buffer) : buffer[i] <= buffer[j]
             rest  == [k \in 1..(Len(buffer) - 1) |->
                          IF k < least THEN buffer[k] ELSE buffer[k + 1]]
         IN  <<buffer[least]>> \o Sorted(rest)

\* Mutant: no filtering, the newest sample is published.
MedianNewest(buffer) == 2 * buffer[Len(buffer)]

\* np.median(buffer), in halves: the middle sample of an odd window, the mean
\* of the two middle samples of an even one.
Median(buffer) ==
    LET n == Len(buffer)
        s == Sorted(buffer)
    IN  IF n % 2 = 1 THEN 2 * s[(n + 1) \div 2]
        ELSE s[n \div 2] + s[n \div 2 + 1]

\* ================================================== utils.dict_tools
\* Mutant: an index one too low, which Python wraps to the end of the list.
ListIndexOneLow(list, key) ==
    LET i == CHOOSE i \in 1..Len(list) :
                 list[i] = key /\ \A j \in 1..(i - 1) : list[j] # key
    IN  IF i = 1 THEN Len(list) ELSE i - 1

\* list.index(key): the position of the first element equal to key.
ListIndex(list, key) ==
    CHOOSE i \in 1..Len(list) :
        list[i] = key /\ \A j \in 1..(i - 1) : list[j] # key

\* return [input.index(key) for key in output]
find_ordering(input, output) ==
    [n \in 1..Len(output) |-> ListIndex(input, output[n])]

\* return [inputs[i] for i in ordering]
reorder(list, ordering) ==
    [n \in 1..Len(ordering) |-> list[ordering[n]]]

\* return dict(zip(keys, values))
dict_from_lists(keys, values) ==
    [key \in {keys[i] : i \in 1..Min(Len(keys), Len(values))} |->
        values[CHOOSE i \in 1..Len(keys) :
                   keys[i] = key /\ \A j \in (i + 1)..Len(keys) : keys[j] # key]]

\* dict.get(key): the value, or None for a key the dict does not hold.
DictGet(data, key) == IF key \in DOMAIN data THEN data[key] ELSE "None"

\* return [data.get(key) for key in keys]
dict_to_list(data, keys) == [i \in 1..Len(keys) |-> DictGet(data, keys[i])]

\* regex.match(key): a name pattern is kept as the set of the joint names it
\* matches, ".*_kn" as the four knee names.
RegexMatch(regex, key) == key \in regex

\* for key in data: if regex.match(key): data[key] = value
set_matching(data, regex, value) ==
    [key \in DOMAIN data |-> IF RegexMatch(regex, key) THEN value ELSE data[key]]

\* A thread object that has run to its end (normally or by an exception).
Ended == {"done", "raised"}

\* ============================================ orbit.orbit_configuration
\* orbit.orbit_constants.ordered_joint_names_orbit
ordered_joint_names_orbit ==
    <<"fl_hx", "fr_hx", "hl_hx", "hr_hx",
      "fl_hy", "fr_hy", "hl_hy", "hr_hy",
      "fl_kn", "fr_kn", "hl_kn", "hr_kn">>

\* [None] * 12
NoneList == [i \in 1..Len(ordered_joint_names_orbit) |-> "None"]

\* A key the JSON object does not hold: reading it raises KeyError.
Absent == "absent"

\* for group in actuators.keys(): regex = re.compile(...joint_names_expr[0]);
\* set_matching(data, regex, actuators[group][field])
RECURSIVE SetActuators(_, _, _)
SetActuators(data, actuators, field) ==
    IF actuators = <<>> THEN data
    ELSE SetActuators(set_matching(data, Head(actuators).joint_names_expr,
                                   Head(actuators)[field]),
                      Tail(actuators), field)

\* for expression in default_joint_expressions:
\*     set_matching(joint_offsets, re.compile(expression), data[expression])
RECURSIVE SetOffsets(_, _)
SetOffsets(data, joint_pos) ==
    IF joint_pos = <<>> THEN data
    ELSE SetOffsets(set_matching(data, Head(joint_pos).expression,
                                 Head(joint_pos).value),
                    Tail(joint_pos))

\* A subscript of load_configuration that raises KeyError.
MissingKey(env) ==
    \/ \E i \in 1..Len(env.actuators) :
           \/ env.actuators[i].stiffness = Absent
           \/ env.actuators[i].damping = Absent
    \/ env.scale = Absent

\* load_configuration: every joint starts at None, the name patterns fill in
\* the values, and the OrbitConfig is returned as it then stands.
load_configuration(env) ==
    IF MissingKey(env) THEN [kind |-> "KeyError"]
    ELSE [kind |-> "OrbitConfig",
          kp |-> SetActuators(dict_from_lists(ordered_joint_names_orbit, NoneList),
                              env.actuators, "stiffness"),
          kd |-> SetActuators(dict_from_lists(ordered_joint_names_orbit, NoneList),
                              env.actuators, "damping"),
          default_joints |->
                SetOffsets(dict_from_lists(ordered_joint_names_orbit, NoneList),
                           env.joint_pos),
          action_scale |-> env.scale]

\* Name patterns: ".*", ".*_h[xy]", ".*_kn", "f[lr]_.*"
EveryJoint == {ordered_joint_names_orbit[i] : i \in 1..12}
Hips       == {ordered_joint_names_orbit[i] : i \in 1..8}
Knees      == {ordered_joint_names_orbit[i] : i \in 9..12}
FrontLegs  == {"fl_hx", "fr_hx", "fl_hy", "fr_hy", "fl_kn", "fr_kn"}

\* A training configuration whose patterns cover every joint.
TrainedEnv ==
    [actuators |-> <<[joint_names_expr |-> Hips, stiffness |-> "60.0",
                      damping |-> "1.5"],
                     [joint_names_expr |-> Knees, stiffness |-> "60.0",
                      damping |-> "1.5"]>>,
     joint_pos |-> <<[expression |-> EveryJoint, value |-> "0.1"]>>,
     scale |-> "0.2"]

\* ==================================================== orbit.observations
\* spatialmath: UnitQuaternion(w, [x, y, z]).inv() * v, the vector v turned by
\* the inverse of the rotation. The quaternion is given by integers and
\* stands for the unit quaternion of its direction (the constructor
\* normalises); for the quarter and half turns used here the quotients are
\* exact.
InverseRotate(q, v) ==
    LET w == q[1]
        x == q[2]
        y == q[3]
        z == q[4]
        n == w * w + x * x + y * y + z * z
    IN  << ((w * w + x * x - y * y - z * z) * v[1]
              + 2 * (x * y + w * z) * v[2]
              + 2 * (x * z - w * y) * v[3]) \div n,
           (2 * (x * y - w * z) * v[1]
              + (w * w - x * x + y * y - z * z) * v[2]
              + 2 * (y * z + w * x) * v[3]) \div n,
           (2 * (x * z + w * y) * v[1]
              + 2 * (y * z - w * x) * v[2]
              + (w * w - x * x - y * y + z * z) * v[3]) \div n >>

\* get_base_linear_velocity: velocity_base = odom_r_base.inv() * velocity_odom
get_base_linear_velocity(state) == InverseRotate(state.rotation, state.linear)

\* get_base_angular_velocity:
\* angular_velocity_base = odom_r_base.inv() * angular_velocity_odom
get_base_angular_velocity(state) ==
    InverseRotate(state.rotation, state.angular)

\* Mutant: gravity pointing up in the odom frame.
gravity_odom_up == <<0, 0, 1>>

\* get_projected_gravity: gravity_odom = [0, 0, -1]
gravity_odom == <<0, 0, -1>>

\* get_projected_gravity: gravity_base = odom_r_base.inv() * gravity_odom
get_projected_gravity(state) == InverseRotate(state.rotation, gravity_odom)

\* spot_to_orbit = find_ordering(ordered_joint_names_bosdyn,
\*                               ordered_joint_names_orbit)
spot_to_orbit ==
    find_ordering(ordered_joint_names_bosdyn, ordered_joint_names_orbit)

\* get_joint_positions: the positions reordered to the policy's order, less
\* the default joint positions: list(map(sub, pos, default_joints)).
get_joint_positions(state, cfg) ==
    LET pos == reorder(state.position, spot_to_orbit)
        default_joints == dict_to_list(cfg.default_joints,
                                       ordered_joint_names_orbit)
    IN  [i \in 1..Min(Len(pos), Len(default_joints))
           |-> pos[i] - default_joints[i]]

\* get_joint_velocity: reorder(state.joint_states.velocity, spot_to_orbit)
get_joint_velocity(state) == reorder(state.velocity, spot_to_orbit)

\* Mutant: the joint velocities put before the joint positions.
collect_inputs_velocity_first(state, cfg) ==
    get_base_linear_velocity(state) \o get_base_angular_velocity(state)
      \o get_projected_gravity(state) \o velocity_cmd
      \o get_joint_velocity(state) \o get_joint_positions(state, cfg)
      \o last_action

\* OnnxCommandGenerator.collect_inputs: observations += ..., seven times.
collect_inputs(state, cfg) ==
    get_base_linear_velocity(state) \o get_base_angular_velocity(state)
      \o get_projected_gravity(state) \o velocity_cmd
      \o get_joint_positions(state, cfg) \o get_joint_velocity(state)
      \o last_action

\* OnnxCommandGenerator.__init__: self._last_action = [0] * 12
InitialAction == [i \in 1..Len(ordered_joint_names_orbit) |-> 0]

\* No cycle of the generator is followed on its data.
InitGenerator ==
    /\ cycle_pc = "none"
    /\ robot_state = [kind |-> "none"]
    /\ ordered_joint_names_bosdyn = ordered_joint_names_orbit
    /\ input_list = <<>>
    /\ policy_output = <<>>
    /\ last_action = InitialAction
    /\ position = <<>>
    /\ init_pos = <<>> /\ init_load = <<>>
    /\ DEFAULT_K_Q_P = <<>> /\ DEFAULT_K_QD_P = <<>>
    /\ hold = [kind |-> "none"]

\* ------------------------------------------------------------ Init
InitCommon ==
    /\ main_pc = "power_on"
    /\ state_pc = "none" /\ cmd_pc = "none" /\ act_pc = "none"
    /\ main_exc = "none"
    /\ started_streaming = FALSE
    /\ activate_thread_stopping = FALSE
    /\ command_stream_stopping = FALSE
    /\ state_stream_stopping = FALSE
    /\ gamepad \in BOOLEAN
    /\ input_pc = InputThreadAtStart
    /\ gamepad_stopping = FALSE
    /\ event = FALSE
    /\ latest_state = 0
    /\ context_count = 0
    /\ div_count = 0
    /\ gen_count = InitialCount
    /\ obs_state = 0
    /\ obs_velocity = DefaultVelocity
    /\ cmd_exc = FALSE
    /\ powered = FALSE
    /\ snapshots = 0
    /\ joint_control = FALSE
    /\ produced = <<>>
    /\ pulls = 0
    /\ enable_calls = 0
    /\ power_off_calls = 0
    /\ timed_out = FALSE
    /\ waits_total = 0
    /\ waits_at_call = 0
    /\ signals_in_call = 0
    /\ div_calls = 0
    /\ div_last = "none"
    /\ join_order = <<>>
    /\ velocity_cmd = DefaultVelocity
    /\ startup_failed = FALSE
    /\ power_off_cut = {}

\* Spot.__init__ sets _command_thread and _state_thread, not _activate_thread.
InitSpot ==
    /\ InitCommon
    /\ mock = FALSE
    /\ command_thread = "None"
    /\ state_thread = "None"
    /\ activate_thread = "unset"

\* Gamepad.__init__: the default axis with a filter window of one sample; the
\* stick rests or is pushed fully forward.
InitAxis ==
    /\ x_axis = DefaultAxis
    /\ median_filter_window = 1
    /\ stick = {0, -FullScale}
    /\ x_buffer = NewBuffer(median_filter_window)
    /\ raw = 0
    /\ shaped = 0
    /\ x_vel = 0
    /\ listened = FALSE

\* No reordering in progress.
InitOrdering ==
    /\ ord_pc = "none"
    /\ ordering_a = <<>> /\ ordering_b = <<>>
    /\ inputs = <<>> /\ there = <<>> /\ back = <<>>

\* The training configuration as main() has loaded it and handed it to the
\* command generator.
InitLoaded ==
    /\ load_pc = "done"
    /\ env_config = TrainedEnv
    /\ config = load_configuration(TrainedEnv)
    /\ generator_config = config

Init == InitSpot /\ InitAxis /\ InitOrdering /\ InitLoaded /\ InitGenerator

\* ======================================================= main thread
\* Positions of main() inside the try block: a KeyboardInterrupt can be
\* raised at any of them.
TryBlock == {"power_on", "stand", "start_state", "input1",
             "start_act", "start_cmd", "input2"}

\* Operator interrupt (Ctrl-C): except KeyboardInterrupt, then finally.
MainInterrupt ==
    /\ main_pc \in TryBlock
    /\ main_pc' = "stop_cmd"
    /\ UNCHANGED <<mock, pure, aux, state_pc, cmd_pc, act_pc, input_pc, main_exc, spotf,
                   padf, ctx, div_count, genf, robot, hist>>

\* Mutant: a failure of power-on or stand that is swallowed, the session
\* going on to start its streams.
RaisedInTrySwallowed == "start_state"

\* An exception other than KeyboardInterrupt raised inside the try block of
\* main() skips the except clause and enters the finally block.
RaisedInTry == "stop_cmd"

\* Spot.power_on: robot.power_on, then RuntimeError unless is_powered_on().
MainPowerOn ==
    /\ main_pc = "power_on"
    /\ \E ok \in BOOLEAN :
         /\ powered' = ok
         /\ startup_failed' = ~ok
         /\ IF ok
              THEN main_pc' = "stand" /\ main_exc' = main_exc
              ELSE main_pc' = RaisedInTry /\ main_exc' = "RuntimeError"
    /\ UNCHANGED <<mock, pure, velocity_cmd, power_off_cut, state_pc, cmd_pc,
                   act_pc, input_pc, spotf, padf, ctx,
                   div_count, genf, snapshots, joint_control, hist>>

\* Spot.stand: blocking_stand returns or raises.
MainStand ==
    /\ main_pc = "stand"
    /\ \E ok \in BOOLEAN :
         /\ startup_failed' = ~ok
         /\ IF ok
              THEN main_pc' = "start_state" /\ main_exc' = main_exc
              ELSE main_pc' = RaisedInTry /\ main_exc' = "CommandFailed"
    /\ UNCHANGED <<mock, pure, velocity_cmd, power_off_cut, state_pc, cmd_pc,
                   act_pc, input_pc, spotf, padf, ctx,
                   div_count, genf, robot, hist>>

\* Spot.start_state_stream: create and start the state thread.
MainStartStateStream ==
    /\ main_pc = "start_state"
    /\ state_thread' = "Thread"
    /\ state_pc' = "recv"
    /\ main_pc' = "input1"
    /\ UNCHANGED <<mock, pure, aux, cmd_pc, act_pc, input_pc, main_exc, started_streaming,
                   activate_thread_stopping, command_stream_stopping,
                   state_stream_stopping, command_thread, activate_thread,
                   padf, ctx, div_count, genf, robot, hist>>

\* input(): the operator presses Enter.
MainInput ==
    /\ \/ main_pc = "input1" /\ main_pc' = "start_act"
       \/ main_pc = "input2" /\ main_pc' = "stop_cmd"
    /\ UNCHANGED <<mock, pure, aux, state_pc, cmd_pc, act_pc, input_pc, main_exc, spotf,
                   padf, ctx, div_count, genf, robot, hist>>

\* Spot.start_command_stream, first half: the activation thread.
MainStartActivate ==
    /\ main_pc = "start_act"
    /\ activate_thread' = "Thread"
    /\ act_pc' = "poll"
    /\ main_pc' = "start_cmd"
    /\ UNCHANGED <<mock, pure, aux, state_pc, cmd_pc, input_pc, main_exc, started_streaming,
                   activate_thread_stopping, command_stream_stopping,
                   state_stream_stopping, command_thread, state_thread,
                   padf, ctx, div_count, genf, robot, hist>>

\* Spot.start_command_stream, second half: the command thread.
MainStartCommand ==
    /\ main_pc = "start_cmd"
    /\ command_thread' = "Thread"
    /\ cmd_pc' = "open"
    /\ main_pc' = "input2"
    /\ UNCHANGED <<mock, pure, aux, state_pc, act_pc, input_pc, main_exc, started_streaming,
                   activate_thread_stopping, command_stream_stopping,
                   state_stream_stopping, state_thread, activate_thread,
                   padf, ctx, div_count, genf, robot, hist>>

\* Mutant: a join that does not wait for the thread.
JoinReturnsAtOnce(pc) == TRUE

\* Thread.join returns once the thread has ended.
JoinReturns(pc) == pc \in Ended

\* Spot.stop_command_stream: if self._command_thread is not None: flag, join.
MainStopCommand ==
    /\ main_pc = "stop_cmd"
    /\ IF command_thread # "None"
         THEN command_stream_stopping' = TRUE /\ main_pc' = "join_cmd"
         ELSE command_stream_stopping' = command_stream_stopping
              /\ main_pc' = "stop_act"
    /\ UNCHANGED <<mock, pure, aux, state_pc, cmd_pc, act_pc, input_pc, main_exc,
                   started_streaming, activate_thread_stopping,
                   state_stream_stopping, command_thread, state_thread,
                   activate_thread, padf, ctx, div_count, genf, robot, hist>>

MainJoinCommand ==
    /\ main_pc = "join_cmd"
    /\ JoinReturns(cmd_pc)
    /\ main_pc' = "stop_act"
    /\ join_order' = Append(join_order, "command")
    /\ UNCHANGED <<mock, pure, aux, state_pc, cmd_pc, act_pc, input_pc, main_exc, spotf,
                   padf, ctx, div_count, genf, robot, produced, pulls,
                   enable_calls, power_off_calls, timed_out, waits_total,
                   waits_at_call, signals_in_call, div_calls, div_last>>

\* Spot.stop_command_stream: if self._activate_thread is not None: flag, join.
\* Reading an attribute __init__ never set raises AttributeError, which leaves
\* the finally block of main().
MainStopActivate ==
    /\ main_pc = "stop_act"
    /\ IF activate_thread = "unset"
         THEN /\ main_exc' = "AttributeError"
              /\ main_pc' = "raised"
              /\ activate_thread_stopping' = activate_thread_stopping
         ELSE /\ main_exc' = main_exc
              /\ activate_thread_stopping' = TRUE
              /\ main_pc' = "join_act"
    /\ UNCHANGED <<mock, pure, aux, state_pc, cmd_pc, act_pc, input_pc, started_streaming,
                   command_stream_stopping, state_stream_stopping,
                   command_thread, state_thread, activate_thread, padf, ctx,
                   div_count, genf, robot, hist>>

MainJoinActivate ==
    /\ main_pc = "join_act"
    /\ JoinReturns(act_pc)
    /\ main_pc' = "stop_state"
    /\ join_order' = Append(join_order, "activate")
    /\ UNCHANGED <<mock, pure, aux, state_pc, cmd_pc, act_pc, input_pc, main_exc, spotf,
                   padf, ctx, div_count, genf, robot, produced, pulls,
                   enable_calls, power_off_calls, timed_out, waits_total,
                   waits_at_call, signals_in_call, div_calls, div_last>>

\* Spot.stop_state_stream: if self._state_thread is not None: flag, join.
MainStopState ==
    /\ main_pc = "stop_state"
    /\ IF state_thread # "None"
         THEN state_stream_stopping' = TRUE /\ main_pc' = "join_state"
         ELSE state_stream_stopping' = state_stream_stopping
              /\ main_pc' = "stop_pad"
    /\ UNCHANGED <<mock, pure, aux, state_pc, cmd_pc, act_pc, input_pc, main_exc,
                   started_streaming, activate_thread_stopping,
                   command_stream_stopping, command_thread, state_thread,
                   activate_thread, padf, ctx, div_count, genf, robot, hist>>

MainJoinState ==
    /\ main_pc = "join_state"
    /\ JoinReturns(state_pc)
    /\ main_pc' = "stop_pad"
    /\ join_order' = Append(join_order, "state")
    /\ UNCHANGED <<mock, pure, aux, state_pc, cmd_pc, act_pc, input_pc, main_exc, spotf,
                   padf, ctx, div_count, genf, robot, produced, pulls,
                   enable_calls, power_off_calls, timed_out, waits_total,
                   waits_at_call, signals_in_call, div_calls, div_last>>

\* if gamepad is not None: gamepad.stop_listening() (flag, join).
MainStopGamepad ==
    /\ main_pc = "stop_pad"
    /\ IF gamepad
         THEN gamepad_stopping' = TRUE /\ main_pc' = "join_input"
         ELSE gamepad_stopping' = gamepad_stopping /\ main_pc' = "exit"
    /\ UNCHANGED <<mock, pure, aux, state_pc, cmd_pc, act_pc, input_pc, main_exc, spotf,
                   gamepad, ctx, div_count, genf, robot, hist>>

MainJoinInput ==
    /\ main_pc = "join_input"
    /\ JoinReturns(input_pc)
    /\ main_pc' = "exit"
    /\ join_order' = Append(join_order, "input")
    /\ UNCHANGED <<mock, pure, aux, state_pc, cmd_pc, act_pc, input_pc, main_exc, spotf,
                   padf, ctx, div_count, genf, robot, produced, pulls,
                   enable_calls, power_off_calls, timed_out, waits_total,
                   waits_at_call, signals_in_call, div_calls, div_last>>

\* End of the finally block: a pending exception other than the handled
\* KeyboardInterrupt propagates out of main().
MainExit ==
    /\ main_pc = "exit"
    /\ main_pc' = IF main_exc = "none" THEN "done" ELSE "raised"
    /\ UNCHANGED <<mock, pure, aux, state_pc, cmd_pc, act_pc, input_pc, main_exc, spotf,
                   padf, ctx, div_count, genf, robot, hist>>

\* ================================================= state-ingest thread
\* Spot._handle_state_stream: the next snapshot arrives and the callback
\* StateHandler.__call__ stores it (self._context.latest_state = state).
\* Mutant: the handler raises the signal without storing the snapshot.
StoredStateDropped(state) == 0

\* StateHandler.__call__: self._context.latest_state = state
StoredState(state) == state

StateRecv ==
    /\ state_pc = "recv"
    /\ snapshots < MaxSnapshots
    /\ snapshots' = snapshots + 1
    /\ latest_state' = StoredState(snapshots + 1)
    /\ state_pc' = "set"
    /\ UNCHANGED <<mock, pure, aux, main_pc, cmd_pc, act_pc, input_pc, main_exc, spotf,
                   padf, event, context_count, div_count, genf, powered,
                   joint_control, hist>>

\* The divider call in progress, if any (between its first wait and its return).
InDividerCall == cmd_pc \in {"div_wait", "div_clear"}

\* StateHandler.__call__: self._context.event.set(); then the loop's
\* "if self._state_stream_stopping: return".
StateSet ==
    /\ state_pc = "set"
    /\ event' = TRUE
    /\ signals_in_call' = IF InDividerCall THEN signals_in_call + 1
                          ELSE signals_in_call
    /\ state_pc' = IF state_stream_stopping THEN "done" ELSE "recv"
    /\ UNCHANGED <<mock, pure, aux, main_pc, cmd_pc, act_pc, input_pc, main_exc, spotf,
                   padf, latest_state, context_count, div_count, genf, robot,
                   produced, pulls, enable_calls, power_off_calls, timed_out,
                   waits_total, waits_at_call, div_calls, div_last, join_order>>

\* ======================================================== input thread
\* Mutant: the shared vector updated in place, entry by entry, the x entry
\* in this step.
PublishedVelocityInPlace(x, y, yaw) == <<x, velocity_cmd[2], velocity_cmd[3]>>

\* Gamepad.listen: self._context.velocity_cmd = [self.x_vel, self.y_vel,
\* self.yaw], one assignment of a new list.
PublishedVelocity(x, y, yaw) == <<x, y, yaw>>

\* Gamepad.listen: while not self._stopping: one polling cycle. The x axis is
\* read, shaped, filtered and published; the y and yaw sticks are deflected
\* as the x stick is and their axes configured alike, so that their buffers
\* and medians are those of the x axis.
InputListen ==
    /\ input_pc = "listen"
    /\ IF gamepad_stopping
         THEN /\ input_pc' = "done"
              /\ UNCHANGED <<x_buffer, raw, shaped, x_vel, listened, velocity_cmd>>
         ELSE /\ input_pc' = "listen"
              /\ listened' = TRUE
              /\ \E x_input \in stick :
                   LET buffer == BufferAppend(x_buffer,
                                              apply_curve(x_input, x_axis),
                                              median_filter_window)
                   IN  /\ raw' = x_input
                       /\ shaped' = apply_curve(x_input, x_axis)
                       /\ x_buffer' = buffer
                       /\ x_vel' = Median(buffer)
                       /\ velocity_cmd' = PublishedVelocity(Median(buffer),
                                                            Median(buffer),
                                                            Median(buffer))
    /\ UNCHANGED <<mock, ordf, loadf, cyclef, x_axis, median_filter_window, stick,
                   startup_failed, power_off_cut, main_pc, state_pc, cmd_pc,
                   act_pc, main_exc, spotf,
                   padf, ctx, div_count, genf, robot, hist>>

\* ======================================================== rate divider
\* EventDivider.__call__: count = 0
DividerStartCount == 0

\* Mutant: the loop test off by one, one wait short of the factor.
DividerContinuesShort(count) == count < Factor - 1

\* EventDivider.__call__: while count < self._factor
DividerContinues(count) == count < Factor

\* Mutant: a timed-out tick is retried instead of ending the generator.
SpotAfterTimingRetry(ok) == IF ok THEN "collect" ELSE "loop_test"

\* Spot._command_stream_loop: what follows timing_policy()'s result.
SpotAfterTiming(ok) == IF ok THEN "collect" ELSE "finally"

\* MockSpot._commandUpdate: the result of timing_policy() is not read.
MockAfterTiming(ok) == "collect"

AfterTiming(ok) == IF mock THEN MockAfterTiming(ok) ELSE SpotAfterTiming(ok)

\* The caller's loop test passed: timing_policy() is entered.
DividerEnter ==
    /\ div_count' = DividerStartCount
    /\ div_calls' = div_calls + 1
    /\ waits_at_call' = waits_total
    /\ signals_in_call' = 0
    /\ IF DividerContinues(DividerStartCount)
         THEN cmd_pc' = "div_wait" /\ div_last' = div_last
         ELSE cmd_pc' = AfterTiming(TRUE) /\ div_last' = "ok"

\* self._event.wait(1): returns True once the event is set, False after 1 s
\* without it ("return False").
DivWait ==
    /\ cmd_pc = "div_wait"
    /\ \/ /\ event
          /\ cmd_pc' = "div_clear"
          /\ waits_total' = waits_total + 1
          /\ UNCHANGED <<div_last, timed_out>>
       \/ /\ ~event
          /\ cmd_pc' = AfterTiming(FALSE)
          /\ div_last' = "timeout"
          /\ timed_out' = TRUE
          /\ UNCHANGED waits_total
    /\ UNCHANGED <<mock, pure, aux, main_pc, state_pc, act_pc, input_pc, main_exc, spotf,
                   padf, ctx, div_count, genf, robot, produced, pulls,
                   enable_calls, power_off_calls, waits_at_call,
                   signals_in_call, div_calls, join_order>>

\* count += 1; self._event.clear(); time.sleep(0.001); then the while test and,
\* when it fails, "return True".
DivClear ==
    /\ cmd_pc = "div_clear"
    /\ div_count' = div_count + 1
    /\ event' = FALSE
    /\ IF DividerContinues(div_count + 1)
         THEN cmd_pc' = "div_wait" /\ div_last' = div_last
         ELSE cmd_pc' = AfterTiming(TRUE) /\ div_last' = "ok"
    /\ UNCHANGED <<mock, pure, aux, main_pc, state_pc, act_pc, input_pc, main_exc, spotf,
                   padf, latest_state, context_count, genf, robot, produced,
                   pulls, enable_calls, power_off_calls, timed_out, waits_total,
                   waits_at_call, signals_in_call, div_calls, join_order>>

\* =================================================== command generator
\* Mutant: the key taken from the shared counter, which trails by one.
UserCommandKeyFromContext == context_count

\* create_proto: update_proto.joint_command.user_command_key = self._count
UserCommandKey == gen_count

\* Mutant: the gains attached to every command.
GainsAttachedAlways == TRUE

\* create_proto: "Fill in gains the first dt": if self._count == 1
GainsAttached == gen_count = InitialCount

\* Mutant: the ramp computed from a cycle index that starts at 0.
TestScaleFromZero(count) == Min(count - 1, RampFull)

\* __call__: test_scale = min(0.1 * self._count, 1), in tenths.
TestScale(count) == Min(count, RampFull)

\* Mutant: the default joint positions taken off instead of added.
shifted_output_sub(test_scaled_output, cfg) ==
    LET default_joints == dict_to_list(cfg.default_joints,
                                       ordered_joint_names_orbit)
    IN  [i \in 1..Min(Len(test_scaled_output), Len(default_joints))
           |-> test_scaled_output[i] - default_joints[i]]

\* __call__: shifted_output = list(map(add, test_scaled_output,
\* default_joints)), with default_joints in the policy's order.
shifted_output(test_scaled_output, cfg) ==
    LET default_joints == dict_to_list(cfg.default_joints,
                                       ordered_joint_names_orbit)
    IN  [i \in 1..Min(Len(test_scaled_output), Len(default_joints))
           |-> test_scaled_output[i] + default_joints[i]]

\* __call__: the policy's output scaled by action_scale (in tenths) and by
\* test_scale (in tenths), shifted by the default joint positions (in
\* hundredths) and reordered to the robot's order.
reordered_output(action, count, cfg) ==
    LET scaled_output == [i \in 1..Len(ordered_joint_names_orbit)
                            |-> cfg.action_scale * action[i]]
        test_scaled_output == [i \in 1..Len(scaled_output)
                                 |-> TestScale(count) * scaled_output[i]]
        orbit_to_spot == find_ordering(ordered_joint_names_orbit,
                                       ordered_joint_names_bosdyn)
    IN  reorder(shifted_output(test_scaled_output, cfg), orbit_to_spot)

\* OnnxCommandGenerator.__call__, first half: the initial-position cache and
\* collect_inputs read self._context.latest_state; a None there raises
\* AttributeError out of the caller's loop. collect_inputs reads
\* self._context.velocity_cmd once, into the observation.
CmdCollect ==
    /\ cmd_pc = "collect"
    /\ gen_count <= MaxCommands
    /\ IF latest_state = 0
         THEN /\ cmd_exc' = TRUE
              /\ cmd_pc' = IF mock THEN "raised" ELSE "finally"
              /\ UNCHANGED <<obs_state, obs_velocity>>
         ELSE /\ cmd_exc' = cmd_exc
              /\ obs_state' = latest_state
              /\ obs_velocity' = velocity_cmd
              /\ cmd_pc' = "proto"
    /\ UNCHANGED <<mock, pure, aux, main_pc, state_pc, act_pc, input_pc, main_exc, spotf,
                   padf, ctx, div_count, gen_count, robot, hist>>

\* Where the caller's loop is once command_policy() has returned the command:
\* Spot._command_stream_loop is suspended at its yield, MockSpot._commandUpdate
\* is back at its while test.
AfterCommand == IF mock THEN "mock_test" ELSE "yielded"

\* The period of the state stream, in milliseconds (333 Hz).
StatePeriod == 3

\* state.joint_states.acquisition_timestamp of the n-th snapshot of the
\* stream, in milliseconds since the stream began.
acquisition_timestamp(state) == state * StatePeriod

\* create_proto: end_time = observation_time.seconds
\*                          + observation_time.nanos / 1e9 + 0.1
DeadlineOffset == 100

\* create_proto: extrapolation_duration.nanos = int(5 * 1e6), in milliseconds.
ExtrapolationDuration == 5

\* create_proto: observation_time is read from self._context.latest_state as
\* it is when the proto is made, and end_time is computed from it.
EndTime == acquisition_timestamp(latest_state) + DeadlineOffset

\* Mutant: the shared counter overwritten with the generator's own count.
SharedCountFromOwn == gen_count + 1

\* __call__: self._context.count += 1
SharedCountAfter == context_count + 1

\* OnnxCommandGenerator.__call__, second half: scaling, create_proto, then
\* self._count += 1 and self._context.count += 1, and the command is returned.
CmdProto ==
    /\ cmd_pc = "proto"
    /\ produced' = Append(produced, [key   |-> UserCommandKey,
                                     gains |-> GainsAttached,
                                     scale |-> TestScale(gen_count)])
    /\ gen_count' = gen_count + 1
    /\ context_count' = SharedCountAfter
    /\ obs_state' = 0
    /\ obs_velocity' = DefaultVelocity
    /\ cmd_pc' = AfterCommand
    /\ UNCHANGED <<mock, pure, aux, main_pc, state_pc, act_pc, input_pc, main_exc, spotf,
                   padf, event, latest_state, div_count, cmd_exc, robot, pulls,
                   enable_calls, power_off_calls, timed_out, waits_total,
                   waits_at_call, signals_in_call, div_calls, div_last,
                   join_order>>

\* ====================================================== command thread
\* Spot._run_command_stream: send_joint_control_commands starts to consume
\* the generator _command_stream_loop.
CmdOpen ==
    /\ cmd_pc = "open"
    /\ pulls' = pulls + 1
    /\ cmd_pc' = "loop_test"
    /\ UNCHANGED <<mock, pure, aux, main_pc, state_pc, act_pc, input_pc, main_exc, spotf,
                   padf, ctx, div_count, genf, robot, produced, enable_calls,
                   power_off_calls, timed_out, waits_total, waits_at_call,
                   signals_in_call, div_calls, div_last, join_order>>

\* _command_stream_loop: while not self._command_stream_stopping, then
\* timing_policy() is entered.
CmdLoopTest ==
    /\ cmd_pc = "loop_test"
    /\ IF command_stream_stopping
         THEN /\ cmd_pc' = "finally"
              /\ UNCHANGED <<div_count, div_calls, waits_at_call,
                             signals_in_call, div_last>>
         ELSE DividerEnter
    /\ UNCHANGED <<mock, pure, aux, main_pc, state_pc, act_pc, input_pc, main_exc, spotf,
                   padf, ctx, genf, robot, produced, pulls, enable_calls,
                   power_off_calls, timed_out, waits_total, join_order>>

\* The transport has sent the yielded command and asks for the next one: the
\* generator resumes after the yield with self._started_streaming = True.
CmdResume ==
    /\ cmd_pc = "yielded"
    /\ pulls' = pulls + 1
    /\ started_streaming' = TRUE
    /\ cmd_pc' = "loop_test"
    /\ UNCHANGED <<mock, pure, aux, main_pc, state_pc, act_pc, input_pc, main_exc,
                   activate_thread_stopping, command_stream_stopping,
                   state_stream_stopping, command_thread, state_thread,
                   activate_thread, padf, ctx, div_count, genf, robot,
                   produced, enable_calls, power_off_calls, timed_out,
                   waits_total, waits_at_call, signals_in_call, div_calls,
                   div_last, join_order>>

\* _run_command_stream, finally: self._activate_thread_stopping = True
CmdFinally ==
    /\ cmd_pc = "finally"
    /\ activate_thread_stopping' = TRUE
    /\ cmd_pc' = "join_act"
    /\ UNCHANGED <<mock, pure, aux, main_pc, state_pc, act_pc, input_pc, main_exc,
                   started_streaming, command_stream_stopping,
                   state_stream_stopping, command_thread, state_thread,
                   activate_thread, padf, ctx, div_count, genf, robot, hist>>

\* Mutant: the activation thread is never joined before the power-off.
ActivationJoinedNever == FALSE

\* finally: if self._activate_thread: (the thread object is truthy)
ActivationJoined == activate_thread = "Thread"

\* finally: if self._activate_thread: self._activate_thread.join(); an
\* exception of the stream then ends the thread before the power-off.
CmdJoinActivate ==
    /\ cmd_pc = "join_act"
    /\ ActivationJoined => JoinReturns(act_pc)
    /\ cmd_pc' = IF cmd_exc THEN "raised" ELSE "power_off"
    /\ UNCHANGED <<mock, pure, aux, main_pc, state_pc, act_pc, input_pc, main_exc, spotf,
                   padf, ctx, div_count, genf, robot, hist>>

\* self.robot.power_off(cut_immediately=False, ...)
CutImmediately == FALSE

\* self.robot.power_off(cut_immediately=False, timeout_sec=20): the robot
\* powers off, stays on, or the call raises.
CmdPowerOff ==
    /\ cmd_pc = "power_off"
    /\ power_off_calls' = power_off_calls + 1
    /\ power_off_cut' = power_off_cut \cup {CutImmediately}
    /\ \E outcome \in {"off", "still_on", "raises"} :
         /\ powered' = IF outcome = "off" THEN FALSE ELSE powered
         /\ cmd_pc' = IF outcome = "raises" THEN "raised" ELSE "assert_off"
    /\ UNCHANGED <<mock, pure, velocity_cmd, startup_failed, main_pc, state_pc,
                   act_pc, input_pc, main_exc, spotf,
                   padf, ctx, div_count, genf, snapshots, joint_control,
                   produced, pulls, enable_calls, timed_out, waits_total,
                   waits_at_call, signals_in_call, div_calls, div_last,
                   join_order>>

\* Mutant: a failed assertion that sends the thread back to power off again.
AfterAssertOffRetry(on) == IF on THEN "power_off" ELSE "done"

\* The assertion is the last statement of the thread: it ends the thread,
\* with AssertionError when the robot still reports power.
AfterAssertOff(on) == IF on THEN "raised" ELSE "done"

\* assert not self.robot.is_powered_on(), "Robot power off failed."
CmdAssertOff ==
    /\ cmd_pc = "assert_off"
    /\ cmd_pc' = AfterAssertOff(powered)
    /\ UNCHANGED <<mock, pure, aux, main_pc, state_pc, act_pc, input_pc, main_exc, spotf,
                   padf, ctx, div_count, genf, robot, hist>>

\* =================================================== activation thread
\* Mutant: activation that does not wait for the stream to start.
ActivateLoopExitsAtOnce == TRUE

\* Spot.activate: while not self._started_streaming
ActivateLoopExits == started_streaming

ActPoll ==
    /\ act_pc = "poll"
    /\ act_pc' = IF ActivateLoopExits THEN "activate" ELSE "poll_stop"
    /\ UNCHANGED <<mock, pure, aux, main_pc, state_pc, cmd_pc, input_pc, main_exc, spotf,
                   padf, ctx, div_count, genf, robot, hist>>

\* Mutant: an activation loop that never looks at the stop flag.
ActivateStopSeenNever == FALSE

\* Spot.activate: if self._activate_thread_stopping: return
ActivateStopSeen == activate_thread_stopping

\* time.sleep(0.001); if self._activate_thread_stopping: return
ActPollStop ==
    /\ act_pc = "poll_stop"
    /\ act_pc' = IF ActivateStopSeen THEN "done" ELSE "poll"
    /\ UNCHANGED <<mock, pure, aux, main_pc, state_pc, cmd_pc, input_pc, main_exc, spotf,
                   padf, ctx, div_count, genf, robot, hist>>

\* self._command_client.robot_command(joint_command): joint control is
\* enabled, or the call raises.
ActActivate ==
    /\ act_pc = "activate"
    /\ enable_calls' = enable_calls + 1
    /\ \E ok \in BOOLEAN :
         /\ joint_control' = (joint_control \/ ok)
         /\ act_pc' = IF ok THEN "finally" ELSE "finally_exc"
    /\ UNCHANGED <<mock, pure, aux, main_pc, state_pc, cmd_pc, input_pc, main_exc, spotf,
                   padf, ctx, div_count, genf, powered, snapshots, produced,
                   pulls, power_off_calls, timed_out, waits_total,
                   waits_at_call, signals_in_call, div_calls, div_last,
                   join_order>>

\* finally: "Signal everything else to stop too":
\* self._activate_thread_stopping = True, the only flag the block sets; an
\* exception of robot_command then ends the thread.
ActFinally ==
    /\ act_pc \in {"finally", "finally_exc"}
    /\ activate_thread_stopping' = TRUE
    /\ act_pc' = IF act_pc = "finally_exc" THEN "raised" ELSE "done"
    /\ UNCHANGED <<mock, pure, aux, main_pc, state_pc, cmd_pc, input_pc, main_exc,
                   started_streaming, command_stream_stopping,
                   state_stream_stopping, command_thread,
                   state_thread, activate_thread, padf, ctx, div_count, genf,
                   robot, hist>>

\* ======================================================= specification
Next ==
    \/ MainInterrupt \/ MainPowerOn \/ MainStand \/ MainStartStateStream
    \/ MainInput \/ MainStartActivate \/ MainStartCommand
    \/ MainStopCommand \/ MainJoinCommand \/ MainStopActivate
    \/ MainJoinActivate \/ MainStopState \/ MainJoinState
    \/ MainStopGamepad \/ MainJoinInput \/ MainExit
    \/ StateRecv \/ StateSet \/ InputListen
    \/ DivWait \/ DivClear \/ CmdCollect \/ CmdProto
    \/ CmdOpen \/ CmdLoopTest \/ CmdResume \/ CmdFinally \/ CmdJoinActivate
    \/ CmdPowerOff \/ CmdAssertOff
    \/ ActPoll \/ ActPollStop \/ ActActivate \/ ActFinally

Spec == Init /\ [][Next]_vars

\* The steps of the main thread inside stop_command_stream.
StopCommandStream ==
    MainStopCommand \/ MainJoinCommand \/ MainStopActivate \/ MainJoinActivate

\* The steps of the command thread (Spot._run_command_stream): the transport
\* keeps pulling the generator, and every wait of the divider is bounded by
\* its timeout.
CommandThread ==
    \/ DivWait \/ DivClear \/ CmdCollect \/ CmdProto
    \/ CmdOpen \/ CmdLoopTest \/ CmdResume \/ CmdFinally \/ CmdJoinActivate
    \/ CmdPowerOff \/ CmdAssertOff

\* The steps of the activation thread (Spot.activate).
ActivateThread == ActPoll \/ ActPollStop \/ ActActivate \/ ActFinally

\* The interpreter schedules every thread that can run: a thread that stays
\* able to take a step takes one. Nothing is assumed of the operator or of
\* the robot's state stream, which may fall silent.
\* The program run without a gamepad (the velocity command stays at its
\* default): the input thread takes no part in stopping the stream.
InitFair == Init /\ ~gamepad

NextFair ==
    \/ MainInterrupt \/ MainPowerOn \/ MainStand \/ MainStartStateStream
    \/ MainInput \/ MainStartActivate \/ MainStartCommand
    \/ StopCommandStream
    \/ MainStopState \/ MainJoinState \/ MainStopGamepad \/ MainExit
    \/ StateRecv \/ StateSet
    \/ CommandThread
    \/ ActivateThread

SpecFair ==
    /\ InitFair /\ [][NextFair]_vars
    /\ WF_vars(StopCommandStream)
    /\ WF_vars(CommandThread)
    /\ WF_vars(ActivateThread)

\* ====================================================== mock transport
\* MockSpot.__init__ sets neither _command_thread nor _stateUpdates; a
\* MockSpot has no activation thread.
InitMock ==
    /\ InitCommon
    /\ mock = TRUE
    /\ command_thread = "unset"
    /\ state_thread = "unset"
    /\ activate_thread = "unset"
    /\ InitAxis /\ InitOrdering /\ InitLoaded /\ InitGenerator

\* MockSpot.power_on: pass
MockPowerOn ==
    /\ main_pc = "power_on"
    /\ main_pc' = "stand"
    /\ UNCHANGED <<mock, pure, aux, state_pc, cmd_pc, act_pc, input_pc, main_exc, spotf,
                   padf, ctx, div_count, genf, robot, hist>>

\* MockSpot.stand: pass
MockStand ==
    /\ main_pc = "stand"
    /\ main_pc' = "start_state"
    /\ UNCHANGED <<mock, pure, aux, state_pc, cmd_pc, act_pc, input_pc, main_exc, spotf,
                   padf, ctx, div_count, genf, robot, hist>>

\* MockSpot.start_state_stream: a RepeatedTimer calling the state handler.
MockStartStateStream ==
    /\ main_pc = "start_state"
    /\ state_thread' = "Thread"
    /\ state_pc' = "timer_test"
    /\ main_pc' = "input1"
    /\ UNCHANGED <<mock, pure, aux, cmd_pc, act_pc, input_pc, main_exc, started_streaming,
                   activate_thread_stopping, command_stream_stopping,
                   state_stream_stopping, command_thread, activate_thread,
                   padf, ctx, div_count, genf, robot, hist>>

\* input(): the operator presses Enter.
MockInput ==
    /\ \/ main_pc = "input1" /\ main_pc' = "start_cmd"
       \/ main_pc = "input2" /\ main_pc' = "stop_cmd"
    /\ UNCHANGED <<mock, pure, aux, state_pc, cmd_pc, act_pc, input_pc, main_exc, spotf,
                   padf, ctx, div_count, genf, robot, hist>>

\* MockSpot.start_command_stream: the thread running _commandUpdate.
MockStartCommand ==
    /\ main_pc = "start_cmd"
    /\ command_thread' = "Thread"
    /\ cmd_pc' = "mock_test"
    /\ main_pc' = "input2"
    /\ UNCHANGED <<mock, pure, aux, state_pc, act_pc, input_pc, main_exc, started_streaming,
                   activate_thread_stopping, command_stream_stopping,
                   state_stream_stopping, state_thread, activate_thread,
                   padf, ctx, div_count, genf, robot, hist>>

\* MockSpot.stop_command_stream: if self._command_thread is not None: flag,
\* join. The attribute does not exist before start_command_stream.
MockStopCommand ==
    /\ main_pc = "stop_cmd"
    /\ IF command_thread = "unset"
         THEN /\ main_exc' = "AttributeError"
              /\ main_pc' = "raised"
              /\ command_stream_stopping' = command_stream_stopping
         ELSE /\ main_exc' = main_exc
              /\ command_stream_stopping' = TRUE
              /\ main_pc' = "join_cmd"
    /\ UNCHANGED <<mock, pure, aux, state_pc, cmd_pc, act_pc, input_pc, started_streaming,
                   activate_thread_stopping, state_stream_stopping,
                   command_thread, state_thread, activate_thread, padf, ctx,
                   div_count, genf, robot, hist>>

MockJoinCommand ==
    /\ main_pc = "join_cmd"
    /\ JoinReturns(cmd_pc)
    /\ main_pc' = "stop_state"
    /\ join_order' = Append(join_order, "command")
    /\ UNCHANGED <<mock, pure, aux, state_pc, cmd_pc, act_pc, input_pc, main_exc, spotf,
                   padf, ctx, div_count, genf, robot, produced, pulls,
                   enable_calls, power_off_calls, timed_out, waits_total,
                   waits_at_call, signals_in_call, div_calls, div_last>>

\* MockSpot.stop_state_stream: if self._stateUpdates is not None: stop(), join.
MockStopState ==
    /\ main_pc = "stop_state"
    /\ IF state_thread = "unset"
         THEN /\ main_exc' = "AttributeError"
              /\ main_pc' = "raised"
              /\ state_stream_stopping' = state_stream_stopping
         ELSE /\ main_exc' = main_exc
              /\ state_stream_stopping' = TRUE
              /\ main_pc' = "join_state"
    /\ UNCHANGED <<mock, pure, aux, state_pc, cmd_pc, act_pc, input_pc, started_streaming,
                   activate_thread_stopping, command_stream_stopping,
                   command_thread, state_thread, activate_thread, padf, ctx,
                   div_count, genf, robot, hist>>

\* The one RobotStateStreamResponse the mock hands to every callback.
MockStateMsg == 1

\* RepeatedTimer.run: while not self._stopping: sleep to the next period, then
\* self._target(*self._args), whose first statement stores the message.
TimerTick ==
    /\ state_pc = "timer_test"
    /\ \/ /\ state_stream_stopping
          /\ state_pc' = "done"
          /\ UNCHANGED <<latest_state, snapshots>>
       \/ /\ ~state_stream_stopping
          /\ snapshots < MaxTicks
          /\ snapshots' = snapshots + 1
          /\ latest_state' = StoredState(MockStateMsg)
          /\ state_pc' = "timer_set"
    /\ UNCHANGED <<mock, pure, aux, main_pc, cmd_pc, act_pc, input_pc, main_exc, spotf,
                   padf, event, context_count, div_count, genf, powered,
                   joint_control, hist>>

\* StateHandler.__call__ under the timer: self._context.event.set()
TimerSet ==
    /\ state_pc = "timer_set"
    /\ event' = TRUE
    /\ signals_in_call' = IF InDividerCall THEN signals_in_call + 1
                          ELSE signals_in_call
    /\ state_pc' = "timer_test"
    /\ UNCHANGED <<mock, pure, aux, main_pc, cmd_pc, act_pc, input_pc, main_exc, spotf,
                   padf, latest_state, context_count, div_count, genf, robot,
                   produced, pulls, enable_calls, power_off_calls, timed_out,
                   waits_total, waits_at_call, div_calls, div_last, join_order>>

\* MockSpot._commandUpdate: while not self._command_stream_stopping, then
\* self._timing_policy() is entered.
MockLoopTest ==
    /\ cmd_pc = "mock_test"
    /\ IF command_stream_stopping
         THEN /\ cmd_pc' = "done"
              /\ UNCHANGED <<div_count, div_calls, waits_at_call,
                             signals_in_call, div_last>>
         ELSE DividerEnter
    /\ UNCHANGED <<mock, pure, aux, main_pc, state_pc, act_pc, input_pc, main_exc, spotf,
                   padf, ctx, genf, robot, produced, pulls, enable_calls,
                   power_off_calls, timed_out, waits_total, join_order>>

NextMock ==
    \/ MainInterrupt \/ MockPowerOn \/ MockStand \/ MockStartStateStream
    \/ MockInput \/ MockStartCommand \/ MockStopCommand \/ MockJoinCommand
    \/ MockStopState \/ MainJoinState \/ MainStopGamepad \/ MainJoinInput
    \/ MainExit
    \/ TimerTick \/ TimerSet \/ InputListen
    \/ MockLoopTest \/ DivWait \/ DivClear \/ CmdCollect \/ CmdProto

SpecMock == InitMock /\ [][NextMock]_vars

\* ==================================================== gamepad runs
\* Deadbands 0, 0.2 and 0.5; shaping bounds 0, 0.25, 0.5 and 1.
Deadbands == {0, 4, 10}
ShapingBounds == {0, 5, 10, 20}

\* AxisConfig, with 0 <= min <= max in either direction.
AxisConfigs ==
    {cfg \in [inverted : BOOLEAN, deadband : Deadbands,
              min_forward_dir : ShapingBounds, max_forward_dir : ShapingBounds,
              min_reverse_dir : ShapingBounds, max_reverse_dir : ShapingBounds] :
        /\ cfg.min_forward_dir <= cfg.max_forward_dir
        /\ cfg.min_reverse_dir <= cfg.max_reverse_dir}

\* joystick.get_axis: every twentieth of the travel, or five stick positions.
RawSamples == (-FullScale)..FullScale
CoarseSamples == {-FullScale, -12, 0, 12, FullScale}

\* A Gamepad built from a configuration file: any axis configuration with a
\* window of one sample, or the default axis with any window.
InitGamepad ==
    /\ InitSpot /\ gamepad /\ InitOrdering /\ InitLoaded /\ InitGenerator
    /\ \/ /\ x_axis \in AxisConfigs
          /\ median_filter_window = 1
          /\ stick = RawSamples
       \/ /\ x_axis = DefaultAxis
          /\ median_filter_window \in 1..MaxWindow
          /\ stick = CoarseSamples
    /\ x_buffer = NewBuffer(median_filter_window)
    /\ raw = 0
    /\ shaped = 0
    /\ x_vel = 0
    /\ listened = FALSE

NextGamepad == InputListen

SpecGamepad == InitGamepad /\ [][NextGamepad]_vars

\* ================================================= reordering runs
Names == {"fl_hx", "fr_hx", "hl_hx"}

\* Two orderings with the same elements, each as often in one as in the other.
SameMultiset(a, b) ==
    /\ Len(a) = Len(b)
    /\ \A key \in Names :
         Cardinality({i \in 1..Len(a) : a[i] = key})
           = Cardinality({i \in 1..Len(b) : b[i] = key})

InitReorder ==
    /\ InitSpot /\ ~gamepad /\ InitAxis /\ InitLoaded /\ InitGenerator
    /\ ord_pc = "there"
    /\ \E n \in 1..MaxLen :
         /\ ordering_a \in [1..n -> Names]
         /\ ordering_b \in [1..n -> Names]
         /\ inputs \in [1..n -> 1..n]
    /\ SameMultiset(ordering_a, ordering_b)
    /\ there = <<>>
    /\ back = <<>>

\* get_joint_positions: spot_to_orbit = find_ordering(bosdyn, orbit);
\* pos = reorder(position, spot_to_orbit)
ReorderThere ==
    /\ ord_pc = "there"
    /\ there' = reorder(inputs, find_ordering(ordering_a, ordering_b))
    /\ ord_pc' = "back"
    /\ UNCHANGED <<life, axisf, loadf, cyclef, ordering_a, ordering_b, inputs, back>>

\* OnnxCommandGenerator.__call__: orbit_to_spot = find_ordering(orbit, bosdyn);
\* reordered_output = reorder(shifted_output, orbit_to_spot)
ReorderBack ==
    /\ ord_pc = "back"
    /\ back' = reorder(there, find_ordering(ordering_b, ordering_a))
    /\ ord_pc' = "done"
    /\ UNCHANGED <<life, axisf, loadf, cyclef, ordering_a, ordering_b, inputs, there>>

NextReorder == ReorderThere \/ ReorderBack

SpecReorder == InitReorder /\ [][NextReorder]_vars

\* ============================================ configuration loading
Expressions == {EveryJoint, Hips, Knees, FrontLegs}

ActuatorGroups ==
    [joint_names_expr : Expressions, stiffness : {"60.0", Absent},
     damping : {"1.5"}]

OffsetEntries == [expression : Expressions, value : {"0.1"}]

SeqsUpTo(S, n) == UNION {[1..k -> S] : k \in 0..n}

\* main() before load_configuration(conf_file): any training configuration.
InitLoad ==
    /\ InitSpot /\ ~gamepad /\ InitAxis /\ InitOrdering /\ InitGenerator
    /\ load_pc = "load"
    /\ env_config \in [actuators : SeqsUpTo(ActuatorGroups, MaxGroups),
                       joint_pos : SeqsUpTo(OffsetEntries, MaxGroups),
                       scale : {"0.2", Absent}]
    /\ config = [kind |-> "none"]
    /\ generator_config = [kind |-> "none"]

\* config = orbit.orbit_configuration.load_configuration(conf_file): a
\* KeyError ends main() here.
LoadConfiguration ==
    /\ load_pc = "load"
    /\ config' = load_configuration(env_config)
    /\ load_pc' = IF load_configuration(env_config).kind = "KeyError"
                    THEN "raised" ELSE "construct"
    /\ UNCHANGED <<life, axisf, ordf, cyclef, env_config, generator_config>>

\* command_generator = OnnxCommandGenerator(context, config, ...):
\* self._config = config
ConstructGenerator ==
    /\ load_pc = "construct"
    /\ generator_config' = config
    /\ load_pc' = "done"
    /\ UNCHANGED <<life, axisf, ordf, cyclef, env_config, config>>

NextLoad == LoadConfiguration \/ ConstructGenerator

SpecLoad == InitLoad /\ [][NextLoad]_vars

\* ======================================== one cycle of the generator
\* odom_tform_body.rotation as (w, x, y, z): no turn, a quarter turn about
\* z, a half turn about x, a quarter turn about y.
Orientations == {<<1, 0, 0, 0>>, <<1, 0, 0, 1>>, <<0, 1, 0, 0>>, <<1, 0, 1, 0>>}

\* spot.constants.ordered_joint_names_bosdyn is imported, not defined, in the
\* sources: the joints leg by leg, in the policy's own order, or in the
\* policy's order reversed.
ActuatorOrderings ==
    LET n == Len(ordered_joint_names_orbit)
    IN  { [i \in 1..n |-> ordered_joint_names_orbit[((i - 1) % 3) * 4
                                                     + ((i - 1) \div 3) + 1]],
          ordered_joint_names_orbit,
          [i \in 1..n |-> ordered_joint_names_orbit[n + 1 - i]] }

\* OrbitConfig as the generator uses it: default_joints in hundredths of a
\* radian, all alike or one value per joint, action_scale and kd in tenths.
GeneratorConfigs ==
    { [kind |-> "OrbitConfig",
       kp |-> dict_from_lists(ordered_joint_names_orbit, [i \in 1..12 |-> 60]),
       kd |-> dict_from_lists(ordered_joint_names_orbit, [i \in 1..12 |-> 15]),
       default_joints |-> dict_from_lists(ordered_joint_names_orbit, offsets),
       action_scale |-> 2] :
        offsets \in { [i \in 1..12 |-> 10], [i \in 1..12 |-> 20 * i - 130] } }

\* The joint positions of a robot whose joints are at their default
\* positions, in the robot's order.
DefaultPosition(cfg, names) == dict_to_list(cfg.default_joints, names)

\* RobotStateStreamResponse, the first of the stream: the body at rest or
\* moving, in one of the orientations, the joints at their default positions,
\* still and without load, or away from them, moving and loaded.
Snapshots(cfg, names) ==
    { [seq |-> 1, linear |-> motion[1], angular |-> motion[2], rotation |-> q,
       position |-> joints[1], velocity |-> joints[2], load |-> joints[3]] :
        motion \in { << <<0, 0, 0>>, <<0, 0, 0>> >>,
                     << <<1, 2, 3>>, <<4, 5, 6>> >> },
        q \in Orientations,
        joints \in { << DefaultPosition(cfg, names), [i \in 1..12 |-> 0],
                        [i \in 1..12 |-> 0] >>,
                     << [i \in 1..12 |-> 100 + i], [i \in 1..12 |-> 200 + i],
                        [i \in 1..12 |-> 300 + i] >> } }

\* spot.constants.DEFAULT_K_Q_P and DEFAULT_K_QD_P are imported, not defined,
\* in the sources: one entry per joint of the robot, its arm included, with
\* the gains of the configuration or with other gains.
DefaultGains ==
    { << [i \in 1..14 |-> 60], [i \in 1..14 |-> 15] >>,
      << [i \in 1..14 |-> 500 + i], [i \in 1..14 |-> 40 + i] >> }

\* self._inference_session.run(...): the policy's output.
PolicyOutputs == { [i \in 1..12 |-> i], [i \in 1..12 |-> 3 - i] }

\* A generator just constructed, with a snapshot in the context and the
\* gamepad's thread running.
InitCycle ==
    /\ InitSpot /\ gamepad /\ InitAxis /\ InitOrdering
    /\ load_pc = "done"
    /\ env_config = TrainedEnv
    /\ generator_config \in GeneratorConfigs
    /\ config = generator_config
    /\ ordered_joint_names_bosdyn \in ActuatorOrderings
    /\ robot_state \in Snapshots(generator_config, ordered_joint_names_bosdyn)
    /\ cycle_pc = "collect"
    /\ input_list = <<>>
    /\ policy_output = <<>>
    /\ last_action = InitialAction
    /\ position = <<>>
    /\ init_pos = <<>> /\ init_load = <<>>
    /\ \E gains \in DefaultGains :
         DEFAULT_K_Q_P = gains[1] /\ DEFAULT_K_QD_P = gains[2]
    /\ hold = [kind |-> "none"]

\* The state stream's handler stores the next snapshot in the context: the
\* joints have moved on and their loads changed.
GenPublish ==
    /\ robot_state.seq < MaxPublished
    /\ robot_state' = [robot_state EXCEPT
                         !.seq = @ + 1,
                         !.position = [i \in 1..12 |-> @[i] + 1],
                         !.load = [i \in 1..12 |-> @[i] + 2]]
    /\ UNCHANGED <<life, axisf, ordf, loadf, cycle_pc,
                   ordered_joint_names_bosdyn, input_list, policy_output,
                   last_action, position, init_pos, init_load, DEFAULT_K_Q_P,
                   DEFAULT_K_QD_P, hold>>

\* Mutant: the cache overwritten at every call.
InitCacheAlways(cached, latest) == latest

\* __call__: if self._init_pos is None: self._init_pos = ...position (and
\* self._init_load = ...load); None is kept as the empty list.
InitCache(cached, latest) == IF cached = <<>> THEN latest ELSE cached

\* create_proto_hold: the cached positions and loads as targets, velocities
\* 0, the first twelve default gains if self._count == 1, end_time from the
\* snapshot the context holds, the extrapolation and the key self._count.
create_proto_hold ==
    [kind |-> "hold",
     position |-> [joint_ind \in 1..12 |-> init_pos[joint_ind]],
     velocity |-> [joint_ind \in 1..12 |-> 0],
     load |-> [joint_ind \in 1..12 |-> init_load[joint_ind]],
     k_q_p |-> IF gen_count = InitialCount
                 THEN SubSeq(DEFAULT_K_Q_P, 1, 12) ELSE <<>>,
     k_qd_p |-> IF gen_count = InitialCount
                  THEN SubSeq(DEFAULT_K_QD_P, 1, 12) ELSE <<>>,
     end_time |-> acquisition_timestamp(robot_state.seq) + DeadlineOffset,
     extrapolation_duration |-> ExtrapolationDuration,
     user_command_key |-> gen_count]

\* __call__: the cache of the initial positions and loads, then
\* input_list = self.collect_inputs(self._context.latest_state,
\* self._config)
GenCollect ==
    /\ cycle_pc = "collect"
    /\ gen_count <= MaxCommands
    /\ init_pos' = InitCache(init_pos, robot_state.position)
    /\ init_load' = InitCache(init_load, robot_state.load)
    /\ input_list' = collect_inputs(robot_state, generator_config)
    /\ cycle_pc' = "infer"
    /\ UNCHANGED <<life, axisf, ordf, loadf, robot_state,
                   ordered_joint_names_bosdyn, policy_output, last_action,
                   position, DEFAULT_K_Q_P, DEFAULT_K_QD_P, hold>>

\* __call__: output = self._inference_session.run(...)[0].tolist()[0]
GenInfer ==
    /\ cycle_pc = "infer"
    /\ policy_output' \in PolicyOutputs
    /\ cycle_pc' = "command"
    /\ UNCHANGED <<life, axisf, ordf, loadf, robot_state,
                   ordered_joint_names_bosdyn, input_list, last_action,
                   position, init_pos, init_load, DEFAULT_K_Q_P,
                   DEFAULT_K_QD_P, hold>>

\* __call__: scaling, shifting and reordering of the output, create_proto,
\* then self._last_action = output, self._count += 1 and
\* self._context.count += 1. create_proto_hold has no caller: hold is the
\* command it returns when called where create_proto is.
GenCommand ==
    /\ cycle_pc = "command"
    /\ position' = reordered_output(policy_output, gen_count,
                                    generator_config)
    /\ hold' = create_proto_hold
    /\ last_action' = policy_output
    /\ gen_count' = gen_count + 1
    /\ context_count' = SharedCountAfter
    /\ cycle_pc' = "collect"
    /\ UNCHANGED <<mock, threads, spotf, padf, event, latest_state, div_count,
                   obs_state, obs_velocity, cmd_exc, robot, hist, aux,
                   axisf, ordf, loadf, robot_state,
                   ordered_joint_names_bosdyn, input_list, policy_output,
                   init_pos, init_load, DEFAULT_K_Q_P, DEFAULT_K_QD_P>>

NextCycle == GenCollect \/ GenInfer \/ GenCommand \/ InputListen

SpecCycle == InitCycle /\ [][NextCycle]_vars

\* ============================= cycles of the generator under a stream
\* A generator just constructed, without a gamepad, with the first snapshot
\* of a level body at rest in the context.
InitHold ==
    /\ InitSpot /\ ~gamepad /\ InitAxis /\ InitOrdering
    /\ load_pc = "done"
    /\ env_config = TrainedEnv
    /\ generator_config \in GeneratorConfigs
    /\ config = generator_config
    /\ ordered_joint_names_bosdyn \in ActuatorOrderings
    /\ robot_state \in {state \in Snapshots(generator_config,
                                            ordered_joint_names_bosdyn) :
                           /\ state.linear = <<0, 0, 0>>
                           /\ state.rotation = <<1, 0, 0, 0>>}
    /\ cycle_pc = "collect"
    /\ input_list = <<>>
    /\ policy_output = <<>>
    /\ last_action = InitialAction
    /\ position = <<>>
    /\ init_pos = <<>> /\ init_load = <<>>
    /\ \E gains \in DefaultGains :
         DEFAULT_K_Q_P = gains[1] /\ DEFAULT_K_QD_P = gains[2]
    /\ hold = [kind |-> "none"]

NextHold == GenCollect \/ GenInfer \/ GenCommand \/ GenPublish

SpecHold == InitHold /\ [][NextHold]_vars

\* ========================================================== properties
\* Successful waits of the divider call in progress or just returned.
WaitsInCall == waits_total - waits_at_call

\* C1: one call of the rate divider returns success only after Factor waits
\* of that very call have succeeded, returns failure at the wait that timed
\* out (with fewer than Factor successes), and its count starts afresh at
\* every call: the waits a failed call collected are not credited to the
\* next call.
C1_DividerCountsItsOwnWaits ==
    /\ (cmd_pc = "div_wait") => (div_count = WaitsInCall /\ div_count < Factor)
    /\ (cmd_pc = "div_clear") => (div_count + 1 = WaitsInCall)
    /\ (cmd_pc = "collect" /\ div_last = "ok") => WaitsInCall = Factor
    /\ (cmd_pc = "collect" /\ div_last = "timeout") => WaitsInCall < Factor

\* C1 witness: a call succeeds after an earlier call failed with one or more
\* successful waits to its name.
C1_Witness ==
    /\ cmd_pc = "collect" /\ div_last = "ok"
    /\ div_calls >= 2
    /\ waits_at_call >= 1 /\ waits_at_call < Factor

\* C2 (as claimed): when a divider call returns success, exactly Factor
\* publish_state signals were raised between its start and its return.
C2_ExactlyFactorSignals ==
    (~mock /\ cmd_pc = "collect" /\ div_last = "ok") => signals_in_call = Factor

\* C3: the k-th command produced carries sequence key k, and the shared
\* command count equals the number of commands produced so far.
C3_SequenceKeys ==
    /\ \A k \in 1..Len(produced) : produced[k].key = k
    /\ context_count = Len(produced)

\* C3 witness: several commands produced while more snapshots were signalled
\* than an exact division by Factor would consume.
C3_Witness ==
    /\ Len(produced) >= 2
    /\ snapshots > Factor * Len(produced) + 1

\* C4: the gains are attached to the first command and to no later one.
C4_GainsOnFirstCommandOnly ==
    \A k \in 1..Len(produced) : produced[k].gains <=> (k = 1)

\* C4 witness: a session that produced a second and a third command.
C4_Witness == Len(produced) >= 3 /\ ~mock

\* C5: the ramp factor of the n-th call, in tenths, is n for n in 1..9 and
\* 10 (that is 1.0) for every n >= 10.
C5_RampFactor ==
    \A n \in 1..Len(produced) :
        produced[n].scale = IF n <= 9 THEN n ELSE 10

\* C5 witness: calls beyond the tenth have been made.
C5_Witness == Len(produced) >= 11

\* Positions of main() after stop_command_stream has returned.
AfterStopCommandStream ==
    {"stop_state", "join_state", "stop_pad", "join_input", "exit", "done",
     "raised"}

\* C6: once stop_command_stream, called with the command thread started, has
\* returned, no step generates a command, yields one or pulls the generator.
C6_NoCommandAfterStopReturns ==
    [][(main_pc \in AfterStopCommandStream /\ command_thread = "Thread")
         => /\ produced' = produced
            /\ pulls' = pulls
            /\ gen_count' = gen_count
            /\ cmd_pc' \in Ended]_vars

\* C6 witness: stop_command_stream returned in a session whose command
\* stream had yielded commands.
C6_Witness ==
    /\ main_pc = "stop_state"
    /\ command_thread = "Thread"
    /\ Len(produced) >= 1

\* The order in which the claim has main() join the threads.
JoinRank(t) ==
    CASE t = "command" -> 1 [] t = "activate" -> 2
      [] t = "state" -> 3 [] t = "input" -> 4

\* C7 (as claimed): at the end of shutdown every started thread has been
\* joined, in the order command, activation, state, input, and none runs.
C7_ShutdownJoinsStartedThreads ==
    (main_pc \in {"done", "raised"}) =>
        /\ (command_thread = "Thread") => cmd_pc \in Ended
        /\ (activate_thread = "Thread") => act_pc \in Ended
        /\ (state_thread = "Thread") => state_pc \in Ended
        /\ gamepad => input_pc \in Ended
        /\ \A i, j \in 1..Len(join_order) :
               i < j => JoinRank(join_order[i]) < JoinRank(join_order[j])

\* Positions of the command thread once its generator has ended.
StopPath == {"finally", "join_act", "power_off", "assert_off", "done", "raised"}

\* C8 (as claimed): once the activation thread has ended by a failed
\* enable-joint-control call, the command thread has been told to stop (or
\* has left its loop already).
C8_ActivationFailureStopsCommands ==
    (act_pc = "raised") => (command_stream_stopping \/ cmd_pc \in StopPath)

\* C9: a timed-out divider call ends the command loop for good: the command
\* thread is on its stop path from then on, the divider is not called again,
\* nothing more is produced or pulled, and the power-off comes only after the
\* activation thread was told to stop and has ended.
C9_TimeoutIsTerminal ==
    /\ [](timed_out => cmd_pc \in StopPath)
    /\ [][timed_out => /\ produced' = produced
                       /\ pulls' = pulls
                       /\ div_calls' = div_calls]_vars
    /\ []((timed_out /\ cmd_pc \in {"power_off", "assert_off", "done"})
            => (activate_thread_stopping /\ act_pc \in Ended))

\* C9 witness: the stream timed out after commands had been yielded and the
\* command thread reached the power-off.
C9_Witness ==
    /\ timed_out /\ ~mock
    /\ Len(produced) >= 1
    /\ power_off_calls = 1

\* C10: joint control is enabled at most once, and only after a command was
\* yielded and the transport came back for the next one.
C10_EnableOnceAfterFirstCommand ==
    /\ enable_calls <= 1
    /\ (enable_calls = 1 \/ act_pc = "activate")
         => (Len(produced) >= 1 /\ pulls >= 2 /\ started_streaming)

\* C10 witness: the enable call was made and succeeded.
C10_Witness == enable_calls = 1 /\ joint_control

\* C11: a command stream that ends without an exception of the generator
\* (stop flag or divider timeout) makes exactly one power-off call, with
\* cut_immediately false, made only when the activation thread has ended and
\* nothing further is pulled or produced; the assertion that follows ends
\* the thread, so that no second power-off is made.
C11_OneGracefulPowerOff ==
    /\ [](/\ power_off_calls <= 1
          /\ power_off_cut \subseteq {FALSE}
          /\ (power_off_calls = 1) =>
                 (/\ act_pc \in Ended
                  /\ power_off_cut = {FALSE}
                  /\ cmd_pc \in {"assert_off", "done", "raised"})
          /\ (cmd_pc \in {"assert_off", "done"}) => (power_off_calls = 1)
          /\ (cmd_pc = "raised" /\ ~cmd_exc) => (power_off_calls = 1))
    /\ [][(power_off_calls >= 1) => /\ pulls' = pulls
                                   /\ produced' = produced
                                   /\ power_off_calls' = power_off_calls]_vars

\* C11 witness: commands were yielded, the power-off left the robot powered
\* and the failed assertion ended the thread, after one call.
C11_Witness ==
    /\ cmd_pc = "raised" /\ ~cmd_exc /\ powered
    /\ Len(produced) >= 1
    /\ power_off_calls = 1
    /\ act_pc \in Ended

\* C12: once power-on or stand has raised, main() is past its try block, no
\* state, command or activation thread exists or ever runs, and no command
\* is generated or pulled.
C12_StartupFailureStartsNothing ==
    startup_failed =>
        /\ main_pc \notin TryBlock
        /\ state_pc = "none" /\ cmd_pc = "none" /\ act_pc = "none"
        /\ state_thread = "None" /\ command_thread = "None"
        /\ activate_thread = "unset"
        /\ produced = <<>> /\ pulls = 0 /\ gen_count = InitialCount

\* C12 witness: the stand raised after a successful power-on and main() has
\* ended.
C12_Witness ==
    /\ startup_failed /\ powered
    /\ main_pc = "raised"

\* Every joint has a stiffness, a damping and an offset in the OrbitConfig.
Complete(orbit_config) ==
    \A i \in 1..Len(ordered_joint_names_orbit) :
        LET key == ordered_joint_names_orbit[i] IN
        /\ orbit_config.kp[key] # "None"
        /\ orbit_config.kd[key] # "None"
        /\ orbit_config.default_joints[key] # "None"

\* Some joint name is matched by no actuator pattern or by no offset pattern.
Unmatched(env) ==
    \E i \in 1..Len(ordered_joint_names_orbit) :
        LET key == ordered_joint_names_orbit[i] IN
        \/ \A g \in 1..Len(env.actuators) :
               key \notin env.actuators[g].joint_names_expr
        \/ \A e \in 1..Len(env.joint_pos) :
               key \notin env.joint_pos[e].expression

\* C13 (as claimed): a training configuration with an unmatched joint or a
\* missing key makes load_configuration fail, and the command generator never
\* holds an OrbitConfig in which a joint has no value.
C13_MalformedConfigurationIsFatal ==
    /\ (/\ load_pc # "load"
        /\ \/ Unmatched(env_config)
           \/ env_config.scale = Absent
           \/ \E g \in 1..Len(env_config.actuators) :
                  env_config.actuators[g].stiffness = Absent)
         => (config.kind = "KeyError" /\ load_pc = "raised")
    /\ (generator_config.kind = "OrbitConfig") => Complete(generator_config)

\* C14: without a joystick there is no input thread, the velocity reference
\* keeps its default, and the shutdown neither waits for nor joins an input
\* thread.
C14_NoDeviceNoInputThread ==
    ~gamepad =>
        /\ input_pc = "none"
        /\ velocity_cmd = <<0, 0, 0>>
        /\ ~gamepad_stopping
        /\ main_pc # "join_input"
        /\ \A i \in 1..Len(join_order) : join_order[i] # "input"

\* C14 witness: a session without a joystick that streamed commands and shut
\* down to the end of main().
C14_Witness ==
    /\ ~gamepad
    /\ main_pc = "done"
    /\ Len(produced) >= 1
    /\ cmd_pc = "done" /\ state_pc = "done"
    /\ join_order = <<"command", "activate", "state">>

\* The raw sample of the last polling cycle after the inversion.
Value == IF x_axis.inverted THEN -raw ELSE raw

\* C15: a raw sample inside the deadband, inverted or not, is shaped to
\* exactly 0.
C15_DeadbandGivesZero ==
    (listened /\ Value < x_axis.deadband /\ -Value < x_axis.deadband)
        => shaped = 0

\* C15 witness: a negative sample off centre but inside the deadband of an
\* inverted axis.
C15_Witness ==
    /\ listened
    /\ x_axis.inverted /\ raw < 0
    /\ -raw < x_axis.deadband
    /\ shaped = 0

\* C16: outside the deadband and for one sign of the input, a sample of
\* greater magnitude is shaped to an output of no smaller magnitude.
C16_MonotoneOutsideDeadband ==
    \A x1 \in stick :
        LET value1 == IF x_axis.inverted THEN -x1 ELSE x1 IN
        (/\ listened
         /\ value1 * Value > 0
         /\ x_axis.deadband <= Abs(value1)
         /\ Abs(value1) <= Abs(Value))
          => Abs(apply_curve(x1, x_axis)) <= Abs(shaped)

\* C16 witness: a reverse sample whose output is strictly greater in
\* magnitude than that of a smaller reverse sample outside the deadband.
C16_Witness ==
    /\ listened /\ Value < 0
    /\ \E x1 \in stick :
         LET value1 == IF x_axis.inverted THEN -x1 ELSE x1 IN
         /\ value1 < 0 /\ x_axis.deadband <= -value1 /\ -value1 < -Value
         /\ Abs(apply_curve(x1, x_axis)) < Abs(shaped)

\* C17 (as claimed): a negative input outside the deadband is shaped to
\* -(min_reverse + (|x| - deadband) / (1 - deadband) * (max_reverse -
\* min_reverse)).
C17_ReverseSymmetricRemap ==
    (listened /\ Value < 0 /\ -Value >= x_axis.deadband) =>
        shaped = -(x_axis.min_reverse_dir * (FullScale - x_axis.deadband)
                   + (-Value - x_axis.deadband)
                       * (x_axis.max_reverse_dir - x_axis.min_reverse_dir))

\* C18: a positive input outside the deadband is shaped to min_forward +
\* (x - deadband) / (1 - deadband) * (max_forward - min_forward), which lies
\* between min_forward and max_forward; deadband 0.2, bounds 0.25 and 1 and
\* the raw input 0.6, not inverted, give 0.625 = 5/8.
C18_ForwardRemap ==
    /\ (listened /\ Value > 0 /\ Value >= x_axis.deadband) =>
         /\ shaped = x_axis.min_forward_dir * (FullScale - x_axis.deadband)
                     + (Value - x_axis.deadband)
                         * (x_axis.max_forward_dir - x_axis.min_forward_dir)
         /\ shaped >= x_axis.min_forward_dir * (FullScale - x_axis.deadband)
         /\ shaped <= x_axis.max_forward_dir * (FullScale - x_axis.deadband)
    /\ (/\ listened
        /\ ~x_axis.inverted /\ x_axis.deadband = 4
        /\ x_axis.min_forward_dir = 5 /\ x_axis.max_forward_dir = 20
        /\ raw = 12)
         => 8 * shaped = 5 * FullScale * (FullScale - x_axis.deadband)

\* C18 witness: the scenario of the 0.6 input.
C18_Witness ==
    /\ listened
    /\ ~x_axis.inverted /\ x_axis.deadband = 4
    /\ x_axis.min_forward_dir = 5 /\ x_axis.max_forward_dir = 20
    /\ raw = 12
    /\ shaped = 200

\* The buffer holds one sample that differs from v and v everywhere else.
OutlierAmong(v) ==
    \E i \in 1..Len(x_buffer) :
        /\ x_buffer[i] # v
        /\ \A j \in 1..Len(x_buffer) : j # i => x_buffer[j] = v

\* The shaped samples the buffer of this run can hold.
ShapedSamples == {0} \cup {apply_curve(x, x_axis) : x \in stick}

\* C19 (as claimed): in a window of any odd length, one outlier among
\* otherwise identical samples is not published: the median is the
\* identical value.
C19_MedianRejectsOutlier ==
    (listened /\ median_filter_window % 2 = 1) =>
        \A v \in ShapedSamples : OutlierAmong(v) => x_vel = 2 * v

\* C19 (amended): in a window of odd length 3 or more, one outlier among
\* otherwise identical samples is not published: the median is the
\* identical value.
C19_MedianRejectsOutlierFromThree ==
    (listened /\ median_filter_window % 2 = 1 /\ median_filter_window >= 3) =>
        \A v \in ShapedSamples : OutlierAmong(v) => x_vel = 2 * v

\* C19 witness: a window of five samples, four of them one nonzero value and
\* the newest an outlier.
C19_Witness ==
    /\ listened
    /\ median_filter_window = 5
    /\ \E v \in ShapedSamples :
         /\ v # 0 /\ OutlierAmong(v)
         /\ x_buffer[5] # v
         /\ x_vel = 2 * v

\* No element occurs twice in the ordering.
NoRepeats(a) == \A i, j \in 1..Len(a) : a[i] = a[j] => i = j

\* C20 (as claimed): reordering a list by find_ordering(A, B) and then by
\* find_ordering(B, A) gives the list back, for any two orderings with the
\* same elements as multisets.
C20_RoundTrip == (ord_pc = "done") => (back = inputs)

\* C20 (amended): reordering a list by find_ordering(A, B) and then by
\* find_ordering(B, A) gives the list back, for any two orderings of the
\* same elements in which no element is repeated.
C20_RoundTripWithoutRepeats ==
    (ord_pc = "done" /\ NoRepeats(ordering_a)) => (back = inputs)

\* C20 witness: three distinct elements in two different orders, and a list
\* that the first reordering changed.
C20_Witness ==
    /\ ord_pc = "done"
    /\ Len(ordering_a) = 3 /\ NoRepeats(ordering_a)
    /\ ordering_a # ordering_b
    /\ there # inputs
    /\ back = inputs

\* The index of a joint in the robot's order.
RobotIndex(name) ==
    CHOOSE k \in 1..Len(ordered_joint_names_bosdyn) :
        ordered_joint_names_bosdyn[k] = name

\* C21: the observation is a vector of exactly 48 entries in a fixed order:
\* base linear velocity (1..3), base angular velocity (4..6), projected
\* gravity (7..9), the velocity_cmd the context holds at that moment
\* (10..12), the joint positions (13..24) and joint velocities (25..36) in
\* the policy's joint order, and last_action (37..48): the policy's output
\* of the cycle before as it came, all zeros in the first cycle.
C21_ObservationLayout ==
    [][(cycle_pc = "collect" /\ cycle_pc' = "infer")
         => /\ Len(input_list') = 48
            /\ SubSeq(input_list', 1, 3) = get_base_linear_velocity(robot_state)
            /\ SubSeq(input_list', 4, 6)
                 = get_base_angular_velocity(robot_state)
            /\ SubSeq(input_list', 7, 9) = get_projected_gravity(robot_state)
            /\ SubSeq(input_list', 10, 12) = velocity_cmd
            /\ \A i \in 1..12 :
                 LET name == ordered_joint_names_orbit[i]
                 IN  /\ input_list'[12 + i]
                          = robot_state.position[RobotIndex(name)]
                              - generator_config.default_joints[name]
                     /\ input_list'[24 + i]
                          = robot_state.velocity[RobotIndex(name)]
            /\ SubSeq(input_list', 37, 48)
                 = IF gen_count = 1 THEN [i \in 1..12 |-> 0]
                   ELSE policy_output]_vars

\* C21 witness: the observation of a later cycle, of a moving and turned
\* body, with a velocity from the gamepad and the robot's joint order unlike
\* the policy's.
C21_Witness ==
    /\ cycle_pc = "infer" /\ gen_count >= 2
    /\ Len(input_list) = 48
    /\ robot_state.linear = <<1, 2, 3>> /\ robot_state.rotation = <<1, 0, 0, 1>>
    /\ input_list[1] = 2 /\ input_list[2] = -1
    /\ input_list[10] # 0
    /\ input_list[37] # 0
    /\ ordered_joint_names_bosdyn # ordered_joint_names_orbit

\* A snapshot of a body at rest and level with every joint at its default
\* position and still.
AtRest(state) ==
    /\ state.linear = <<0, 0, 0>> /\ state.angular = <<0, 0, 0>>
    /\ state.rotation = <<1, 0, 0, 0>>
    /\ \A i \in 1..12 :
         /\ state.position[i]
              = generator_config.default_joints[ordered_joint_names_bosdyn[i]]
         /\ state.velocity[i] = 0

\* All zeros but the projected gravity (0, 0, -1) at entries 7..9.
RestObservation == [i \in 1..48 |-> IF i = 9 THEN -1 ELSE 0]

\* C22 (as claimed): the observation built from a snapshot at rest, with
\* velocity_cmd (0, 0, 0), is all zeros except the projected gravity
\* (0, 0, -1).
C22_RestObservation ==
    [][(/\ cycle_pc = "collect" /\ cycle_pc' = "infer"
        /\ AtRest(robot_state)
        /\ velocity_cmd = <<0, 0, 0>>)
         => input_list' = RestObservation]_vars

\* C22 (amended): the observation built from a snapshot at rest, with
\* velocity_cmd (0, 0, 0) and last_action all zeros, as it is in the first
\* cycle, is all zeros except the projected gravity (0, 0, -1).
C22_RestObservationFirstCycle ==
    [][(/\ cycle_pc = "collect" /\ cycle_pc' = "infer"
        /\ AtRest(robot_state)
        /\ velocity_cmd = <<0, 0, 0>>
        /\ last_action = [i \in 1..12 |-> 0])
         => input_list' = RestObservation]_vars

\* C22 witness: the first observation, of a snapshot at rest with joint
\* defaults that differ from joint to joint, in a robot order unlike the
\* policy's.
C22_Witness ==
    /\ cycle_pc = "infer" /\ gen_count = 1
    /\ AtRest(robot_state)
    /\ input_list = RestObservation
    /\ generator_config.default_joints["fl_hx"]
         # generator_config.default_joints["hr_kn"]
    /\ ordered_joint_names_bosdyn # ordered_joint_names_orbit

\* C25: the joint transform of the command is the inverse of that of the
\* observation: the observation's joint-position transform (reorder from
\* the robot's order to the policy's, take off the default positions),
\* applied to the position targets of the command built from a policy
\* output, gives ramp * action_scale * output at every index of the
\* policy's order, for every duplicate-free order of the robot's joints.
C25_CommandInvertsObservation ==
    (cycle_pc = "collect" /\ gen_count > 1)
      => \A i \in 1..12 :
           get_joint_positions([position |-> position], generator_config)[i]
             = (IF gen_count - 1 < 10 THEN gen_count - 1 ELSE 10)
                 * generator_config.action_scale * policy_output[i]

\* C25 witness: a command of the ramp, for a robot order that is neither the
\* policy's nor its own inverse, with defaults that differ from joint to
\* joint.
C25_Witness ==
    /\ cycle_pc = "collect" /\ gen_count = 4
    /\ ordered_joint_names_bosdyn[2] = "fl_hy"
    /\ generator_config.default_joints["fl_hx"]
         # generator_config.default_joints["hr_kn"]
    /\ position[2] = 3 * 2 * policy_output[5]
                       + generator_config.default_joints["fl_hy"]

\* A step that writes latest_state is the state thread's handler storing a
\* snapshot, and it writes no other field of the context.
WritesLatestState ==
    latest_state' # latest_state
      => /\ state_pc = "recv" /\ state_pc' = "set"
         /\ UNCHANGED <<velocity_cmd, context_count, event>>

\* A step that writes velocity_cmd is a polling cycle of the input thread.
WritesVelocity ==
    velocity_cmd' # velocity_cmd
      => /\ input_pc = "listen" /\ ~gamepad_stopping
         /\ UNCHANGED <<main_pc, state_pc, cmd_pc, act_pc>>
         /\ UNCHANGED <<latest_state, context_count, event>>

\* A step that writes the shared count is the generator finishing a command,
\* and it advances the count by one.
WritesCount ==
    context_count' # context_count
      => /\ cmd_pc = "proto" /\ cmd_pc' # cmd_pc
         /\ context_count' = context_count + 1
         /\ UNCHANGED <<latest_state, velocity_cmd, event>>

\* A step that raises the event is the state thread's handler.
RaisesEvent ==
    (~event /\ event')
      => /\ state_pc = "set" /\ state_pc' # state_pc
         /\ UNCHANGED <<latest_state, velocity_cmd, context_count>>

\* A step that clears the event is the divider, in the command thread.
ClearsEvent ==
    (event /\ ~event')
      => /\ cmd_pc = "div_clear" /\ cmd_pc' # cmd_pc
         /\ UNCHANGED <<latest_state, velocity_cmd, context_count>>

\* C23 (as claimed): every field of the shared context has one writer:
\* latest_state the state thread's handler, velocity_cmd the input thread,
\* the count the generator, and the event is modified by one thread only,
\* the state thread that raises it; each write leaves the other fields as
\* they are.
C23_OneWriterPerField ==
    [][/\ WritesLatestState /\ WritesVelocity /\ WritesCount
       /\ event' # event
            => /\ state_pc = "set" /\ state_pc' # state_pc
               /\ UNCHANGED <<latest_state, velocity_cmd, context_count>>]_vars

\* C23 (amended): latest_state is written only by the state thread's
\* handler, velocity_cmd only by the input thread, the count only by the
\* generator, one up per command; the event is raised only by the state
\* thread's handler and cleared only by the divider in the command thread;
\* each write leaves the other fields as they are.
C23_OneWriterPerFieldEventShared ==
    [][/\ WritesLatestState /\ WritesVelocity /\ WritesCount
       /\ RaisesEvent /\ ClearsEvent]_vars

\* C23 witness: all four fields have been written: a snapshot stored, a
\* velocity published, a command counted, and the event raised by the state
\* thread after the divider had cleared it.
C23_Witness ==
    /\ latest_state >= 2 /\ velocity_cmd # DefaultVelocity
    /\ context_count >= 1
    /\ event /\ waits_total >= 1

\* A vector whose three entries one polling cycle wrote: the cycle gives the
\* three axes the same median, and the initial vector is all zeros.
OneCycle(v) == v[1] = v[2] /\ v[2] = v[3]

\* C24: the velocity reference is published as a whole, once per polling
\* cycle: the shared vector and the three velocity entries of every
\* observation are those of one polling cycle or the initial zeros, never
\* a mix of two cycles.
C24_VelocityFromOneCycle ==
    /\ OneCycle(velocity_cmd)
    /\ cmd_pc = "proto" => OneCycle(obs_velocity)
    /\ ~listened => velocity_cmd = <<0, 0, 0>>

\* C24 witness: an observation holds a published, non-zero velocity while
\* the input thread has already published a different one.
C24_Witness ==
    /\ cmd_pc = "proto"
    /\ obs_velocity # DefaultVelocity
    /\ velocity_cmd # obs_velocity

\* C26 (as claimed): in every command cycle, also when the state thread
\* publishes snapshots while the cycle runs, the deadline of the command is
\* the acquisition timestamp of the snapshot the cycle's observation was
\* built from plus 100 ms, and the extrapolation tolerance is 5 ms.
C26_DeadlineFromObservedSnapshot ==
    [][(cmd_pc = "proto" /\ cmd_pc' # "proto")
         => /\ EndTime = acquisition_timestamp(obs_state) + 100
            /\ ExtrapolationDuration = 5]_vars

\* C27: whenever Spot._command_stream_loop invokes the command generator, the
\* shared latest_state holds a published snapshot, never the initial None:
\* the handler stores the snapshot before it raises the signal, and the
\* generator is invoked only after a tick of the divider that succeeded.
C27_GeneratorSeesSnapshot ==
    ~mock =>
      /\ (cmd_pc \in {"collect", "proto"})
            => (latest_state # 0 /\ div_last = "ok" /\ ~cmd_exc)
      /\ event => latest_state # 0
      /\ waits_total >= 1 => latest_state # 0

\* C27 witness: the real transport's loop is about to invoke the generator,
\* with a snapshot stored.
C27_Witness ==
    /\ ~mock /\ cmd_pc = "collect"
    /\ latest_state >= 1
    /\ div_calls >= 2

\* C28 (as claimed): MockSpot._commandUpdate invokes the command policy only
\* after the timing policy returned success, and produces no further command
\* after a failure of the timing policy.
C28_MockLoopLikeSpotLoop ==
    /\ [](mock => (cmd_pc \in {"collect", "proto"} => div_last = "ok"))
    /\ [][(mock /\ timed_out) => produced' = produced]_vars

\* C29: the enable-joint-control call is never issued once the graceful
\* power-off has been issued: the command thread powers off only with the
\* activation thread it joined at its end.
C29_NoEnableAfterPowerOff ==
    [][/\ power_off_calls >= 1 => enable_calls' = enable_calls
       /\ power_off_calls' > power_off_calls
            => (activate_thread = "Thread" => act_pc \in Ended)]_vars

\* C29 witness: joint control was enabled and the power-off was issued after
\* it.
C29_Witness ==
    /\ enable_calls = 1 /\ power_off_calls = 1
    /\ act_pc \in Ended

\* C30 (as claimed): once the activation thread's stop flag is set, the
\* activation thread issues no enable-joint-control call afterwards.
C30_NoEnableAfterStopFlag ==
    [][activate_thread_stopping => enable_calls' = enable_calls]_vars

\* The gains of the configuration in the robot's joint order, as
\* create_proto attaches them.
ConfigGains(gains) == dict_to_list(gains, ordered_joint_names_bosdyn)

\* The targets, deadline, tolerance and key of the hold command built by
\* this step, and the cache it rests on: the positions and loads are those
\* of the snapshot of the first call and stay, the velocities are 0, the
\* deadline is the acquisition time of the snapshot the context holds plus
\* 100 ms, and the key is the generator's counter, one up per command.
HoldTargetsAndSequence ==
    /\ (cycle_pc = "collect" /\ cycle_pc' = "infer" /\ init_pos = <<>>)
         => /\ init_pos' = robot_state.position
            /\ init_load' = robot_state.load
    /\ init_pos # <<>> => UNCHANGED <<init_pos, init_load>>
    /\ (cycle_pc = "command" /\ cycle_pc' = "collect")
         => /\ hold'.position = init_pos /\ hold'.load = init_load
            /\ hold'.velocity = [i \in 1..12 |-> 0]
            /\ hold'.end_time = robot_state.seq * 3 + 100
            /\ hold'.extrapolation_duration = 5
            /\ hold'.user_command_key = gen_count
            /\ gen_count' = gen_count + 1
            /\ (gen_count # 1) => (hold'.k_q_p = <<>> /\ hold'.k_qd_p = <<>>)

\* C32 (as claimed): the hold command follows the rules of the policy
\* command: positions and loads captured at the first call and unchanged
\* later, velocities 0, the gain vectors of the configuration on the first
\* command only, the deadline 100 ms after the snapshot's acquisition time,
\* and the incremented counter as key.
C32_HoldLikePolicyCommand ==
    [][/\ HoldTargetsAndSequence
       /\ (cycle_pc = "command" /\ cycle_pc' = "collect" /\ gen_count = 1)
            => /\ hold'.k_q_p = ConfigGains(generator_config.kp)
               /\ hold'.k_qd_p = ConfigGains(generator_config.kd)]_vars

\* C32 (amended): as claimed, but the gains attached to the first hold
\* command are the first twelve entries of spot.constants' DEFAULT_K_Q_P and
\* DEFAULT_K_QD_P, not the gain vectors of the configuration.
C32_HoldWithDefaultGains ==
    [][/\ HoldTargetsAndSequence
       /\ (cycle_pc = "command" /\ cycle_pc' = "collect" /\ gen_count = 1)
            => /\ hold'.k_q_p = [i \in 1..12 |-> DEFAULT_K_Q_P[i]]
               /\ hold'.k_qd_p = [i \in 1..12 |-> DEFAULT_K_QD_P[i]]]_vars

\* C32 witness: a later hold command, without gains, whose targets are those
\* of the first snapshot while the context holds a later one, for default
\* gains unlike the configuration's.
C32_Witness ==
    /\ hold.kind = "hold" /\ hold.user_command_key >= 2
    /\ hold.k_q_p = <<>>
    /\ robot_state.seq >= 2
    /\ hold.position # robot_state.position
    /\ hold.load[1] = 301
    /\ hold.end_time = 106
    /\ DEFAULT_K_Q_P[1] # generator_config.kp["fl_hx"]

\* stop_command_stream has set the stop flag of a running command thread and
\* waits for it.
StopCalledWhileRunning == main_pc = "join_cmd" /\ cmd_pc \notin Ended

\* stop_command_stream has returned after both joins.
StopReturned ==
    /\ cmd_pc \in Ended
    /\ act_pc \in Ended
    /\ main_pc \notin {"stop_cmd", "join_cmd", "stop_act", "join_act", "raised"}

\* C31: once stop_command_stream has been called on a running command
\* stream, the command thread and the activation thread both end and the
\* call returns, whether the state stream goes on or falls silent.
C31_StopTerminates == StopCalledWhileRunning ~> StopReturned

\* stop_command_stream has returned from both joins, in that order, after the
\* stream had sent commands and a wait of the divider had timed out.
C31_Witness ==
    /\ StopReturned
    /\ main_pc = "stop_state"
    /\ join_order = <<"command", "activate">>
    /\ pulls >= 2
    /\ timed_out


====
